---- MODULE Spec2Model ----
(***************************************************************************)
(* Model of the real-time collaboration engine of ideacanvas               *)
(* (backend/src/services/socketHandlers.js): the per-board shape set and   *)
(* op log kept in the document store, the in-memory lock and presence      *)
(* tables, socket.io room membership, and every socket event handler.      *)
(* An async handler is one action per run-to-next-await segment, so the    *)
(* handlers interleave exactly where the event loop lets them.             *)
(***************************************************************************)
EXTENDS Integers, Sequences, FiniteSets, TLC

(***************************************************************************)
(* Universe of the model                                                   *)
(***************************************************************************)
Null == "null"
Undefined == "undefined"

Conns == {"c1", "c2"}
Boards == {"A", "B"}
Users == {"u1", "u2"}
ShapeIds == {"s1", "s2"}
Vals == {"0", "50"}
UpdKeys == {"x", "y"}

\* socketHandlers.js:22
LOCK_TIMEOUT == 30000
\* socketHandlers.js:762
SWEEP_INTERVAL == 60000

\* bounds of the model
MaxOps == 3
MaxTicks == 3
MaxInflight == 2

TickStep == LOCK_TIMEOUT \div 2
MaxTime == MaxTicks * TickStep

VARIABLES
  db,             \* document store: board id -> Board document
  locks,          \* const locks = {}       boardId -> objectId -> lock
  presence,       \* const presence = {}    boardId -> socketId -> entry
  rooms,          \* socket.io rooms each socket is in
  currentBoardId, \* socket.currentBoardId
  userData,       \* socket.userData
  connected,      \* the socket has not yet disconnected
  inflight,       \* async handlers suspended at an await
  now,            \* Date.now()
  lastSweep,      \* time the setInterval sweep last fired
  emitted         \* events emitted by the last step, in order

vars == <<db, locks, presence, rooms, currentBoardId, userData, connected,
          inflight, now, lastSweep, emitted>>

(***************************************************************************)
(* Board documents (models/Board.js)                                       *)
(***************************************************************************)
\* boardSchema: ownerId, allowedUsers, shapes, ops
BoardDoc(owner, allowed, shapes, ops) ==
  [ownerId |-> owner, allowedUsers |-> allowed, shapes |-> shapes, ops |-> ops]

\* Board.findById(id) finds a document
BoardFound(b) == b \in DOMAIN db

\* an empty JavaScript object used as a map
EmptyMap == [x \in {} |-> Null]

\* a document not yet loaded
NoDoc == BoardDoc(Null, {}, <<>>, <<>>)

\* the null an op-valued expression evaluates to
NoOp == [opType |-> Null]

\* the undefined a lock-valued expression evaluates to
NoLock == [socketId |-> Null, userId |-> Null, timestamp |-> 0]

\* the shape built by create-shape from the event payload
ShapeOfCreate(data, uid) ==
  [id |-> data.id, type |-> data.type, x |-> data.x, y |-> data.y,
   layer |-> "default", createdBy |-> uid]

\* the shape built by draw-end from the event payload
ShapeOfDrawEnd(data, uid) ==
  [id |-> data.id, type |-> "path", points |-> data.points,
   layer |-> "default", createdBy |-> uid]

\* shape[key] of a JavaScript object
Get(shape, key) == IF key \in DOMAIN shape THEN shape[key] ELSE Undefined

\* a variant that replaces the shape by the changes instead of merging them
ObjectAssignReplace(shape, changes) == changes

\* Object.assign(shape, changes)
ObjectAssign(shape, changes) ==
  [k \in (DOMAIN shape) \cup (DOMAIN changes) |->
     IF k \in DOMAIN changes THEN changes[k] ELSE shape[k]]

\* shapes.findIndex(s => s.id === id): first index, or 0 when there is none
FindIndex(shapes, id) ==
  IF \E i \in 1..Len(shapes) : shapes[i].id = id
  THEN CHOOSE i \in 1..Len(shapes) :
         /\ shapes[i].id = id
         /\ \A j \in 1..(i - 1) : shapes[j].id # id
  ELSE 0

\* shapes.filter(s => s.id !== id)
RECURSIVE FilterOut(_, _)
FilterOut(shapes, id) ==
  IF shapes = <<>> THEN <<>>
  ELSE IF Head(shapes).id = id THEN FilterOut(Tail(shapes), id)
       ELSE <<Head(shapes)>> \o FilterOut(Tail(shapes), id)

\* a variant whose undo of a delete recreates the shape without its fields
createUndoOpBare(op, board) ==
  CASE op.opType = "create" ->
         [opType |-> "delete",
          payload |-> [shapeId |-> op.payload.id, deletedShape |-> op.payload]]
    [] op.opType = "delete" ->
         [opType |-> "create", payload |-> [id |-> op.payload.shapeId]]
    [] op.opType = "update" ->
         LET i == FindIndex(board.shapes, op.payload.shapeId)
         IN  IF i = 0 THEN NoOp
             ELSE [opType |-> "update",
                   payload |->
                     [shapeId |-> op.payload.shapeId,
                      changes |-> [k \in DOMAIN op.payload.changes |->
                                     Get(board.shapes[i], k)]]]
    [] OTHER -> NoOp

\* a variant that does not look for the shape before it reverses an update
createUndoOpUnchecked(op, board) ==
  CASE op.opType = "create" ->
         [opType |-> "delete",
          payload |-> [shapeId |-> op.payload.id, deletedShape |-> op.payload]]
    [] op.opType = "delete" ->
         [opType |-> "create", payload |-> op.payload.deletedShape]
    [] op.opType = "update" ->
         [opType |-> "update",
          payload |-> [shapeId |-> op.payload.shapeId,
                       changes |-> op.payload.changes]]
    [] OTHER -> NoOp

\* createUndoOp(op, board): the compensating op, or null
createUndoOp(op, board) ==
  CASE op.opType = "create" ->
         [opType |-> "delete",
          payload |-> [shapeId |-> op.payload.id, deletedShape |-> op.payload]]
    [] op.opType = "delete" ->
         [opType |-> "create", payload |-> op.payload.deletedShape]
    [] op.opType = "update" ->
         LET i == FindIndex(board.shapes, op.payload.shapeId)
         IN  IF i = 0 THEN NoOp
             ELSE [opType |-> "update",
                   payload |->
                     [shapeId |-> op.payload.shapeId,
                      changes |-> [k \in DOMAIN op.payload.changes |->
                                     Get(board.shapes[i], k)]]]
    [] OTHER -> NoOp

\* applyOpToBoard(board, op): the shapes array after the op
applyOpToBoard(shapes, op) ==
  CASE op.opType = "create" ->
         IF FindIndex(shapes, op.payload.id) = 0
         THEN Append(shapes, op.payload) ELSE shapes
    [] op.opType = "delete" -> FilterOut(shapes, op.payload.shapeId)
    [] op.opType = "update" ->
         LET i == FindIndex(shapes, op.payload.shapeId)
         IN  IF i = 0 THEN shapes
             ELSE [shapes EXCEPT ![i] = ObjectAssign(@, op.payload.changes)]
    [] OTHER -> shapes

(***************************************************************************)
(* Lock table                                                              *)
(***************************************************************************)
\* the expiry test of cleanExpiredLocks
\* a variant that lets a lock live twice as long
ExpiredLate(lock, t) == t - lock.timestamp > 2 * LOCK_TIMEOUT

Expired(lock, t) == t - lock.timestamp > LOCK_TIMEOUT

\* cleanExpiredLocks(boardId): the locks map afterwards
cleanExpiredLocks(L, b, t) ==
  IF b \notin DOMAIN L THEN L
  ELSE LET kept == {o \in DOMAIN L[b] : ~Expired(L[b][o], t)}
       IN  IF kept = {}
           THEN [x \in (DOMAIN L) \ {b} |-> L[x]]
           ELSE [L EXCEPT ![b] = [o \in kept |-> L[b][o]]]

\* the objects of board b whose lock cleanExpiredLocks deletes at time t
ExpiredObjects(L, b, t) ==
  IF b \in DOMAIN L THEN {o \in DOMAIN L[b] : Expired(L[b][o], t)} ELSE {}

\* locks[boardId]?.[objectId]
LockOf(L, b, o) ==
  IF b \in DOMAIN L /\ o \in DOMAIN L[b] THEN L[b][o] ELSE NoLock

\* Object.keys(locks[boardId] || {})
LockedObjects(L, b) == IF b \in DOMAIN L THEN DOMAIN L[b] ELSE {}

(***************************************************************************)
(* Rooms and events                                                        *)
(***************************************************************************)
\* members of a socket.io room
InRoom(b) == {c \in Conns : connected[c] /\ b \in rooms[c]}

\* socket.userData?.userId || fallback
UserIdOr(c, fallback) == IF userData[c] # Null THEN userData[c] ELSE fallback

\* an emitted event: "to" are the sockets it is delivered to, "about" the
\* board whose data it carries
Event(name, to, about, data) ==
  [name |-> name, to |-> to, about |-> about, data |-> data]

\* io.to(room).emit(name, data)
IoTo(room, name, about, data) == Event(name, InRoom(room), about, data)

\* a variant that does not leave the sender out
SocketToRoom(c, room, name, about, data) ==
  Event(name, InRoom(room), about, data)

\* socket.to(room).emit(name, data)
SocketTo(c, room, name, about, data) ==
  Event(name, InRoom(room) \ {c}, about, data)

\* a variant that emits to every connected socket
SocketEmitAll(c, name, about, data) ==
  Event(name, {x \in Conns : connected[x]}, about, data)

\* socket.emit(name, data)
SocketEmit(c, name, about, data) ==
  Event(name, IF connected[c] THEN {c} ELSE {}, about, data)

\* a variant that sends the error to the whole room
ErrorToRoom(c, about, message) ==
  IoTo(about, "error", about, [message |-> message])

\* socket.emit("error", { message })
ErrorEvent(c, about, message) ==
  SocketEmit(c, "error", about, [message |-> message])

\* the elements of a finite set as an array
RECURSIVE SeqOf(_)
SeqOf(S) ==
  IF S = {} THEN <<>>
  ELSE LET x == CHOOSE y \in S : TRUE IN <<x>> \o SeqOf(S \ {x})

\* console.log(`Lock expired for object ...`), once per lock that
\* cleanExpiredLocks(boardId) deletes: a line on the server, sent to nobody
ExpiryLog(L, b, t) ==
  LET os == SeqOf(ExpiredObjects(L, b, t))
  IN  [i \in 1..Len(os) |->
         Event("log-lock-expired", {}, b, [objectId |-> os[i]])]

(***************************************************************************)
(* Async handlers in flight                                                *)
(***************************************************************************)
\* the handler invocations that may be suspended at the same time
FreeIds == (1..MaxInflight) \ {h.id : h \in inflight}

\* a handler of socket c suspended at an await: "id" tells invocations
\* apart, "board" is the id it passed to Board.findById, "doc" its in-memory
\* copy of the document, "uid" the user id it passed to checkBoardAccess
Handler(c, kind, pc, board, data) ==
  [id |-> CHOOSE i \in FreeIds : \A j \in FreeIds : i <= j,
   conn |-> c, kind |-> kind, pc |-> pc, board |-> board, data |-> data,
   doc |-> NoDoc, uid |-> Null]

NoData == [none |-> Null]

\* the last element of a non-empty array
Last(seq) == seq[Len(seq)]

\* the handler returns (or throws into its catch) having emitted evs
HandlerEnds(h, evs) ==
  /\ inflight' = inflight \ {h}
  /\ emitted' = evs

\* the handler calls board.save() on its modified copy and awaits it
HandlerSaves(h, doc, evs) ==
  /\ inflight' = (inflight \ {h}) \cup {[h EXCEPT !.pc = "save", !.doc = doc]}
  /\ emitted' = evs

\* a variant without the guard on socket.currentBoardId
MutationBeginUnguarded(c, kind, data) ==
  /\ connected[c]
  /\ FreeIds # {}
  /\ inflight' =
       inflight \cup {Handler(c, kind, "load", currentBoardId[c], data)}
  /\ emitted' = <<>>
  /\ UNCHANGED <<db, locks, presence, rooms, currentBoardId, userData,
                 connected, now, lastSweep>>

\* if (!socket.currentBoardId) return; ... await Board.findById(socket.currentBoardId)
MutationBegin(c, kind, data) ==
  /\ connected[c]
  /\ IF currentBoardId[c] = Null
     THEN UNCHANGED inflight
     ELSE /\ FreeIds # {}
          /\ inflight' =
               inflight \cup {Handler(c, kind, "load", currentBoardId[c], data)}
  /\ emitted' = <<>>
  /\ UNCHANGED <<db, locks, presence, rooms, currentBoardId, userData,
                 connected, now, lastSweep>>

\* await board.save() resolves: the document is stored, then the event is
\* broadcast to the room socket.currentBoardId names at that moment
MutationSaved(h, name, data) ==
  /\ h \in inflight /\ h.pc = "save"
  /\ h.board \in DOMAIN db
  /\ db' = [db EXCEPT ![h.board] = h.doc]
  /\ HandlerEnds(h, <<IoTo(currentBoardId[h.conn], name, h.board, data)>>)
  /\ UNCHANGED <<locks, presence, rooms, currentBoardId, userData, connected,
                 now, lastSweep>>

\* the message each handler's catch sends
FailureMessage(kind) ==
  CASE kind = "draw-end" -> "Failed to save drawing"
    [] kind = "create-shape" -> "Failed to create shape"
    [] kind = "update-shape" -> "Failed to update shape"
    [] kind = "delete-shape" -> "Failed to delete shape"
    [] kind = "undo" -> "Failed to undo"

\* a variant whose catch tells the client nothing
MutationSaveFailedSilent(h) ==
  /\ h \in inflight /\ h.pc = "save"
  /\ HandlerEnds(h, <<>>)
  /\ UNCHANGED <<db, locks, presence, rooms, currentBoardId, userData,
                 connected, now, lastSweep>>

\* a variant that broadcasts the mutation although the save was rejected
MutationSaveFailedAnnounced(h) ==
  /\ h \in inflight /\ h.pc = "save"
  /\ HandlerEnds(h,
       <<IoTo(currentBoardId[h.conn],
              CASE h.kind = "draw-end" -> "draw-end"
                [] h.kind = "create-shape" -> "shape-created"
                [] h.kind = "update-shape" -> "shape-updated"
                [] h.kind = "delete-shape" -> "shape-deleted"
                [] h.kind = "undo" -> "undo-applied",
              h.board, h.data),
         ErrorEvent(h.conn, h.board, FailureMessage(h.kind))>>)
  /\ UNCHANGED <<db, locks, presence, rooms, currentBoardId, userData,
                 connected, now, lastSweep>>

\* await board.save() rejects: catch (error) { socket.emit("error", ...) }
MutationSaveFailed(h) ==
  /\ h \in inflight /\ h.pc = "save"
  /\ HandlerEnds(h, <<ErrorEvent(h.conn, h.board, FailureMessage(h.kind))>>)
  /\ UNCHANGED <<db, locks, presence, rooms, currentBoardId, userData,
                 connected, now, lastSweep>>

(***************************************************************************)
(* draw-end                                                                *)
(***************************************************************************)
DrawEnd(c, data) == MutationBegin(c, "draw-end", data)

DrawEndLoaded(h) ==
  /\ h \in inflight /\ h.kind = "draw-end" /\ h.pc = "load"
  /\ IF ~BoardFound(h.board)
     THEN HandlerEnds(h, <<>>)
     ELSE LET board == db[h.board]
              uid == UserIdOr(h.conn, Null)
              shape == ShapeOfDrawEnd(h.data, uid)
              op == [opType |-> "create", payload |-> shape, createdBy |-> uid]
          IN  HandlerSaves(h, [board EXCEPT !.shapes = Append(@, shape),
                                            !.ops = Append(@, op)], <<>>)
  /\ UNCHANGED <<db, locks, presence, rooms, currentBoardId, userData,
                 connected, now, lastSweep>>

DrawEndSaved(h) ==
  /\ h.kind = "draw-end"
  /\ MutationSaved(h, "draw-end",
       [id |-> h.data.id, points |-> h.data.points,
        userId |-> UserIdOr(h.conn, h.conn)])

(***************************************************************************)
(* create-shape                                                            *)
(***************************************************************************)
CreateShape(c, data) == MutationBegin(c, "create-shape", data)

CreateShapeLoaded(h) ==
  /\ h \in inflight /\ h.kind = "create-shape" /\ h.pc = "load"
  /\ IF ~BoardFound(h.board)
     THEN HandlerEnds(h, <<>>)
     ELSE LET board == db[h.board]
              uid == UserIdOr(h.conn, Null)
              shape == ShapeOfCreate(h.data, uid)
              op == [opType |-> "create", payload |-> shape, createdBy |-> uid]
          IN  HandlerSaves(h, [board EXCEPT !.shapes = Append(@, shape),
                                            !.ops = Append(@, op)], <<>>)
  /\ UNCHANGED <<db, locks, presence, rooms, currentBoardId, userData,
                 connected, now, lastSweep>>

CreateShapeSaved(h) ==
  /\ h.kind = "create-shape"
  /\ MutationSaved(h, "shape-created", Last(h.doc.ops).payload)

(***************************************************************************)
(* update-shape                                                            *)
(***************************************************************************)
UpdateShape(c, data) == MutationBegin(c, "update-shape", data)

\* lock && lock.socketId !== socket.id
\* variants of the holder test: one that blocks the holder instead of the
\* others, one that blocks everybody
LockedBySelf(lock, c) == lock.socketId # Null /\ lock.socketId = c
LockedByAnyone(lock, c) == lock.socketId # Null

LockedByOther(lock, c) == lock.socketId # Null /\ lock.socketId # c

UpdateShapeLoaded(h) ==
  /\ h \in inflight /\ h.kind = "update-shape" /\ h.pc = "load"
  /\ LET c == h.conn
         cleaned == cleanExpiredLocks(locks, currentBoardId[c], now)
         logs == ExpiryLog(locks, currentBoardId[c], now)
     IN  IF ~BoardFound(h.board)
         THEN HandlerEnds(h, <<>>) /\ UNCHANGED locks
         ELSE LET board == db[h.board]
                  shapeIndex == FindIndex(board.shapes, h.data.shapeId)
              IN  IF shapeIndex = 0
                  THEN /\ HandlerEnds(h, <<ErrorEvent(c, h.board, "Shape not found")>>)
                       /\ UNCHANGED locks
                  ELSE /\ locks' = cleaned
                       /\ IF LockedByOther(
                               LockOf(cleaned, currentBoardId[c], h.data.shapeId), c)
                          THEN HandlerEnds(h, logs \o <<ErrorEvent(c, h.board,
                                 "Object is locked by another user")>>)
                          ELSE LET changes == h.data.changes
                                   oldValues ==
                                     [k \in DOMAIN changes |->
                                        Get(board.shapes[shapeIndex], k)]
                                   op == [opType |-> "update",
                                          payload |-> [shapeId |-> h.data.shapeId,
                                                       changes |-> changes,
                                                       oldValues |-> oldValues],
                                          createdBy |-> UserIdOr(c, Null)]
                               IN  HandlerSaves(h,
                                     [board EXCEPT
                                        !.shapes[shapeIndex] = ObjectAssign(@, changes),
                                        !.ops = Append(@, op)], logs)
  /\ UNCHANGED <<db, presence, rooms, currentBoardId, userData, connected,
                 now, lastSweep>>

UpdateShapeSaved(h) ==
  /\ h.kind = "update-shape"
  /\ MutationSaved(h, "shape-updated",
       [shapeId |-> h.data.shapeId, changes |-> h.data.changes])

(***************************************************************************)
(* delete-shape                                                            *)
(***************************************************************************)
DeleteShape(c, data) == MutationBegin(c, "delete-shape", data)

DeleteShapeLoaded(h) ==
  /\ h \in inflight /\ h.kind = "delete-shape" /\ h.pc = "load"
  /\ LET c == h.conn
         cleaned == cleanExpiredLocks(locks, currentBoardId[c], now)
         logs == ExpiryLog(locks, currentBoardId[c], now)
     IN  IF ~BoardFound(h.board)
         THEN HandlerEnds(h, <<>>) /\ UNCHANGED locks
         ELSE LET board == db[h.board]
                  shapeIndex == FindIndex(board.shapes, h.data.shapeId)
              IN  IF shapeIndex = 0
                  THEN /\ HandlerEnds(h, <<ErrorEvent(c, h.board, "Shape not found")>>)
                       /\ UNCHANGED locks
                  ELSE /\ locks' = cleaned
                       /\ IF LockedByOther(
                               LockOf(cleaned, currentBoardId[c], h.data.shapeId), c)
                          THEN HandlerEnds(h, logs \o <<ErrorEvent(c, h.board,
                                 "Object is locked by another user")>>)
                          ELSE LET op == [opType |-> "delete",
                                          payload |->
                                            [shapeId |-> h.data.shapeId,
                                             deletedShape |-> board.shapes[shapeIndex]],
                                          createdBy |-> UserIdOr(c, Null)]
                               IN  HandlerSaves(h,
                                     [board EXCEPT
                                        !.shapes = FilterOut(@, h.data.shapeId),
                                        !.ops = Append(@, op)], logs)
  /\ UNCHANGED <<db, presence, rooms, currentBoardId, userData, connected,
                 now, lastSweep>>

DeleteShapeSaved(h) ==
  /\ h.kind = "delete-shape"
  /\ MutationSaved(h, "shape-deleted", [shapeId |-> h.data.shapeId])

(***************************************************************************)
(* undo                                                                    *)
(***************************************************************************)
Undo(c) == MutationBegin(c, "undo", NoData)

UndoLoaded(h) ==
  /\ h \in inflight /\ h.kind = "undo" /\ h.pc = "load"
  /\ IF ~BoardFound(h.board) \/ Len(db[h.board].ops) = 0
     THEN HandlerEnds(h, <<ErrorEvent(h.conn, h.board, "Nothing to undo")>>)
     ELSE LET board == db[h.board]
              lastOp == Last(board.ops)
              undoOp == createUndoOp(lastOp, board)
          IN  IF undoOp.opType = Null
              THEN HandlerEnds(h, <<ErrorEvent(h.conn, h.board,
                                     "Cannot undo this operation")>>)
              ELSE HandlerSaves(h,
                     [board EXCEPT
                        !.shapes = applyOpToBoard(@, undoOp),
                        !.ops = Append(@, [opType |-> undoOp.opType,
                                           payload |-> undoOp.payload,
                                           createdBy |-> UserIdOr(h.conn, Null)])],
                     <<>>)
  /\ UNCHANGED <<db, locks, presence, rooms, currentBoardId, userData,
                 connected, now, lastSweep>>

\* a variant that sends the shapes stored before the undo
UndoSavedStale(h) ==
  /\ h.kind = "undo"
  /\ MutationSaved(h, "undo-applied",
       [undoOp |-> Last(h.doc.ops),
        shapes |-> IF h.board \in DOMAIN db THEN db[h.board].shapes
                   ELSE <<>>])

UndoSaved(h) ==
  /\ h.kind = "undo"
  /\ MutationSaved(h, "undo-applied",
       [undoOp |-> Last(h.doc.ops), shapes |-> h.doc.shapes])

(***************************************************************************)
(* join-board                                                              *)
(***************************************************************************)
Tokens == {"tok-u1", "tok-u2", "tok-bad"}
Colors == {"#FF6B6B", "#4ECDC4"}

\* authenticateSocket(token): the verified user, or null
authenticateSocket(token) ==
  CASE token = "tok-u1" -> "u1"
    [] token = "tok-u2" -> "u2"
    [] OTHER -> Null

\* a variant that lets sockets without a verified user in
checkBoardAccessPublic(b, uid) ==
  /\ BoardFound(b)
  /\ (uid = Null \/ db[b].ownerId = uid \/ uid \in db[b].allowedUsers)

\* checkBoardAccess(boardId, userId)
checkBoardAccess(b, uid) ==
  /\ BoardFound(b)
  /\ uid # Null
  /\ (db[b].ownerId = uid \/ uid \in db[b].allowedUsers)

\* delete presence[boardId][socket.id], when presence[boardId] exists
PresenceWithout(P, b, c) ==
  IF b \in DOMAIN P
  THEN [P EXCEPT ![b] = [s \in (DOMAIN P[b]) \ {c} |-> P[b][s]]]
  ELSE P

\* presence[boardId][socket.id] = entry, creating presence[boardId] if needed
PresenceWith(P, b, c, entry) ==
  [x \in (DOMAIN P) \cup {b} |->
     [s \in (IF x \in DOMAIN P THEN DOMAIN P[x] ELSE {}) \cup
            (IF x = b THEN {c} ELSE {}) |->
        IF x = b /\ s = c THEN entry ELSE P[x][s]]]

\* the entry join-board writes for the socket
PresenceEntry(c, color) ==
  [userId |-> IF userData[c] # Null THEN userData[c] ELSE "guest-" \o c,
   userName |-> IF userData[c] # Null THEN userData[c] ELSE "Guest",
   color |-> color,
   cursor |-> [x |-> "0", y |-> "0"]]

\* socket.on("join-board") up to its first await
JoinBoard(c, data) ==
  /\ connected[c]
  /\ FreeIds # {}
  /\ inflight' = inflight \cup
       {IF data.token # Null
        THEN Handler(c, "join-board", "auth", data.boardId, data)
        ELSE [Handler(c, "join-board", "access", data.boardId, data)
                EXCEPT !.uid = userData[c]]}
  /\ emitted' = <<>>
  /\ UNCHANGED <<db, locks, presence, rooms, currentBoardId, userData,
                 connected, now, lastSweep>>

\* socket.userData = await authenticateSocket(token); checkBoardAccess(...)
JoinBoardAuthenticated(h) ==
  /\ h \in inflight /\ h.kind = "join-board" /\ h.pc = "auth"
  /\ userData' = [userData EXCEPT ![h.conn] = authenticateSocket(h.data.token)]
  /\ inflight' = (inflight \ {h}) \cup
       {[h EXCEPT !.pc = "access", !.uid = authenticateSocket(h.data.token)]}
  /\ emitted' = <<>>
  /\ UNCHANGED <<db, locks, presence, rooms, currentBoardId, connected, now,
                 lastSweep>>

\* a variant that joins the new room without leaving the previous one
JoinBoardAccessCheckedNoLeave(h) ==
  /\ h \in inflight /\ h.kind = "join-board" /\ h.pc = "access"
  /\ LET c == h.conn
         prev == currentBoardId[c]
     IN  IF ~checkBoardAccess(h.board, h.uid)
         THEN /\ HandlerEnds(h, <<ErrorEvent(c, h.board,
                                   "Access denied to this board")>>)
              /\ UNCHANGED <<presence, rooms, currentBoardId>>
         ELSE /\ presence' = IF prev # Null
                             THEN PresenceWithout(presence, prev, c)
                             ELSE presence
              /\ rooms' = [rooms EXCEPT ![c] = @ \cup {h.board}]
              /\ currentBoardId' = [currentBoardId EXCEPT ![c] = h.board]
              /\ inflight' = (inflight \ {h}) \cup {[h EXCEPT !.pc = "fetch"]}
              /\ emitted' = <<>>
  /\ UNCHANGED <<db, locks, userData, connected, now, lastSweep>>

\* hasAccess = await checkBoardAccess(...); leave the previous board, join
\* the room, await Board.findById(boardId)
JoinBoardAccessChecked(h) ==
  /\ h \in inflight /\ h.kind = "join-board" /\ h.pc = "access"
  /\ LET c == h.conn
         prev == currentBoardId[c]
     IN  IF ~checkBoardAccess(h.board, h.uid)
         THEN /\ HandlerEnds(h, <<ErrorEvent(c, h.board,
                                   "Access denied to this board")>>)
              /\ UNCHANGED <<presence, rooms, currentBoardId>>
         ELSE /\ presence' = IF prev # Null
                             THEN PresenceWithout(presence, prev, c)
                             ELSE presence
              /\ rooms' = [rooms EXCEPT ![c] = (@ \ {prev}) \cup {h.board}]
              /\ currentBoardId' = [currentBoardId EXCEPT ![c] = h.board]
              /\ inflight' = (inflight \ {h}) \cup {[h EXCEPT !.pc = "fetch"]}
              /\ emitted' = <<>>
  /\ UNCHANGED <<db, locks, userData, connected, now, lastSweep>>

\* board = await Board.findById(boardId); presence, board-state,
\* presence-state, user-joined
JoinBoardFetched(h, color) ==
  /\ h \in inflight /\ h.kind = "join-board" /\ h.pc = "fetch"
  /\ LET c == h.conn
         b == h.board
     IN  IF ~BoardFound(b)
         THEN /\ HandlerEnds(h, <<ErrorEvent(c, b, "Board not found")>>)
              /\ UNCHANGED presence
         ELSE LET entry == PresenceEntry(c, color)
                  P == PresenceWith(presence, b, c, entry)
              IN  /\ presence' = P
                  /\ HandlerEnds(h,
                       <<SocketEmit(c, "board-state", b,
                           [shapes |-> db[b].shapes, ops |-> db[b].ops,
                            locks |-> IF b \in DOMAIN locks THEN locks[b]
                                      ELSE EmptyMap]),
                         SocketEmit(c, "presence-state", b, [list |-> P[b]]),
                         SocketTo(c, b, "user-joined", b, entry)>>)
  /\ UNCHANGED <<db, locks, rooms, currentBoardId, userData, connected, now,
                 lastSweep>>

(***************************************************************************)
(* leave-board, disconnect                                                 *)
(***************************************************************************)
LeaveBoard(c) ==
  /\ connected[c]
  /\ LET b == currentBoardId[c]
     IN  IF b = Null
         THEN /\ emitted' = <<>>
              /\ UNCHANGED <<presence, rooms, currentBoardId>>
         ELSE /\ rooms' = [rooms EXCEPT ![c] = @ \ {b}]
              /\ presence' = PresenceWithout(presence, b, c)
              /\ emitted' = IF b \in DOMAIN presence
                            THEN <<Event("user-left", InRoom(b) \ {c}, b,
                                         [socketId |-> c])>>
                            ELSE <<>>
              /\ currentBoardId' = [currentBoardId EXCEPT ![c] = Null]
  /\ UNCHANGED <<db, locks, userData, connected, inflight, now, lastSweep>>

\* the objects of board b whose lock is held by socket c
HeldBy(L, b, c) == {o \in LockedObjects(L, b) : L[b][o].socketId = c}

\* the locks map after deleting the locks of objects os on board b
LocksWithout(L, b, os) ==
  IF b \in DOMAIN L
  THEN [L EXCEPT ![b] = [o \in (DOMAIN L[b]) \ os |-> L[b][o]]]
  ELSE L

\* socket.on("disconnect"): socket.io has already removed the socket from
\* all its rooms
Disconnect(c) ==
  /\ connected[c]
  /\ connected' = [connected EXCEPT ![c] = FALSE]
  /\ rooms' = [rooms EXCEPT ![c] = {}]
  /\ LET b == currentBoardId[c]
         released == SeqOf(HeldBy(locks, b, c))
     IN  IF b = Null
         THEN /\ emitted' = <<>>
              /\ UNCHANGED <<presence, locks>>
         ELSE /\ presence' = PresenceWithout(presence, b, c)
              /\ locks' = LocksWithout(locks, b, HeldBy(locks, b, c))
              /\ emitted' =
                   (IF b \in DOMAIN presence
                    THEN <<Event("user-left", InRoom(b) \ {c}, b,
                                 [socketId |-> c])>>
                    ELSE <<>>) \o
                   [i \in 1..Len(released) |->
                      Event("lock-update", InRoom(b) \ {c}, b,
                            [objectId |-> released[i], locked |-> FALSE])]
  /\ UNCHANGED <<db, currentBoardId, userData, inflight, now, lastSweep>>

(***************************************************************************)
(* lock-object, unlock-object                                              *)
(***************************************************************************)
\* a variant that keeps the lock already stored for the object
LocksWithKept(L, b, o, lock) ==
  [x \in (DOMAIN L) \cup {b} |->
     [p \in (IF x \in DOMAIN L THEN DOMAIN L[x] ELSE {}) \cup
            (IF x = b THEN {o} ELSE {}) |->
        IF x \in DOMAIN L /\ p \in DOMAIN L[x] THEN L[x][p] ELSE lock]]

\* locks[boardId][objectId] = lock, creating locks[boardId] if needed
LocksWith(L, b, o, lock) ==
  [x \in (DOMAIN L) \cup {b} |->
     [p \in (IF x \in DOMAIN L THEN DOMAIN L[x] ELSE {}) \cup
            (IF x = b THEN {o} ELSE {}) |->
        IF x = b /\ p = o THEN lock ELSE L[x][p]]]

\* if (!locks[boardId]) locks[boardId] = {}
LocksInit(L, b) ==
  IF b \in DOMAIN L THEN L ELSE [x \in (DOMAIN L) \cup {b} |->
                                   IF x = b THEN EmptyMap ELSE L[x]]

LockObject(c, objectId) ==
  /\ connected[c]
  /\ LET boardId == currentBoardId[c]
         cleaned == LocksInit(cleanExpiredLocks(locks, boardId, now), boardId)
         existingLock == LockOf(cleaned, boardId, objectId)
         logs == ExpiryLog(locks, boardId, now)
     IN  IF boardId = Null
         THEN emitted' = <<>> /\ UNCHANGED locks
         ELSE IF LockedByOther(existingLock, c)
              THEN /\ locks' = cleaned
                   /\ emitted' = logs \o <<SocketEmit(c, "lock-failed", boardId,
                                     [objectId |-> objectId,
                                      lockedBy |-> existingLock.userId])>>
              ELSE /\ locks' = LocksWith(cleaned, boardId, objectId,
                                 [socketId |-> c, userId |-> UserIdOr(c, c),
                                  timestamp |-> now])
                   /\ emitted' = logs \o <<IoTo(boardId, "lock-update", boardId,
                                     [objectId |-> objectId, locked |-> TRUE,
                                      userId |-> UserIdOr(c, c)])>>
  /\ UNCHANGED <<db, presence, rooms, currentBoardId, userData, connected,
                 inflight, now, lastSweep>>

\* a variant that lets any socket of the board release the lock
UnlockObjectAnyone(c, objectId) ==
  /\ connected[c]
  /\ LET boardId == currentBoardId[c]
     IN  IF \/ boardId = Null
            \/ LockOf(locks, boardId, objectId).socketId = Null
         THEN emitted' = <<>> /\ UNCHANGED locks
         ELSE /\ locks' = LocksWithout(locks, boardId, {objectId})
              /\ emitted' = <<IoTo(boardId, "lock-update", boardId,
                                [objectId |-> objectId, locked |-> FALSE])>>
  /\ UNCHANGED <<db, presence, rooms, currentBoardId, userData, connected,
                 inflight, now, lastSweep>>

UnlockObject(c, objectId) ==
  /\ connected[c]
  /\ LET boardId == currentBoardId[c]
     IN  IF \/ boardId = Null
            \/ LockOf(locks, boardId, objectId).socketId # c
         THEN emitted' = <<>> /\ UNCHANGED locks
         ELSE /\ locks' = LocksWithout(locks, boardId, {objectId})
              /\ emitted' = <<IoTo(boardId, "lock-update", boardId,
                                [objectId |-> objectId, locked |-> FALSE])>>
  /\ UNCHANGED <<db, presence, rooms, currentBoardId, userData, connected,
                 inflight, now, lastSweep>>

(***************************************************************************)
(* cursor-move, draw-start, draw-delta, redo                               *)
(***************************************************************************)
\* a variant that tells the others without storing the position
CursorMoveUnstored(c, data) ==
  /\ connected[c]
  /\ LET boardId == currentBoardId[c]
     IN  emitted' =
           IF boardId # Null /\ boardId \in DOMAIN presence
              /\ c \in DOMAIN presence[boardId]
           THEN <<SocketTo(c, boardId, "cursor-update", boardId,
                    [userId |-> presence[boardId][c].userId,
                     cursor |-> data])>>
           ELSE <<>>
  /\ UNCHANGED <<db, locks, presence, rooms, currentBoardId, userData,
                 connected, inflight, now, lastSweep>>

CursorMove(c, data) ==
  /\ connected[c]
  /\ LET boardId == currentBoardId[c]
     IN  IF boardId # Null /\ boardId \in DOMAIN presence
            /\ c \in DOMAIN presence[boardId]
         THEN /\ presence' = [presence EXCEPT ![boardId][c].cursor = data]
              /\ emitted' = <<SocketTo(c, boardId, "cursor-update", boardId,
                                [userId |-> presence[boardId][c].userId,
                                 cursor |-> data])>>
         ELSE emitted' = <<>> /\ UNCHANGED presence
  /\ UNCHANGED <<db, locks, rooms, currentBoardId, userData, connected,
                 inflight, now, lastSweep>>

\* draw-start and draw-delta: re-broadcast to the others in the room
DrawRelay(c, name, data) ==
  /\ connected[c]
  /\ emitted' = IF currentBoardId[c] = Null THEN <<>>
                ELSE <<SocketTo(c, currentBoardId[c], name, currentBoardId[c],
                         [id |-> data.id, userId |-> UserIdOr(c, c)])>>
  /\ UNCHANGED <<db, locks, presence, rooms, currentBoardId, userData,
                 connected, inflight, now, lastSweep>>

DrawStart(c, data) == DrawRelay(c, "draw-start", data)

DrawDelta(c, data) == DrawRelay(c, "draw-delta", data)

Redo(c) ==
  /\ connected[c]
  /\ emitted' = IF currentBoardId[c] = Null THEN <<>>
                ELSE <<ErrorEvent(c, currentBoardId[c],
                         "Redo not fully implemented - use undo to reverse")>>
  /\ UNCHANGED <<db, locks, presence, rooms, currentBoardId, userData,
                 connected, inflight, now, lastSweep>>

(***************************************************************************)
(* Time                                                                    *)
(***************************************************************************)
\* Object.keys(locks).forEach(cleanExpiredLocks)
RECURSIVE CleanAll(_, _, _)
CleanAll(L, bs, t) ==
  IF bs = {} THEN L
  ELSE LET b == CHOOSE x \in bs : TRUE
       IN  CleanAll(cleanExpiredLocks(L, b, t), bs \ {b}, t)

\* the console.log lines of one sweep
RECURSIVE SweepLog(_, _, _)
SweepLog(L, bs, t) ==
  IF bs = {} THEN <<>>
  ELSE LET b == CHOOSE x \in bs : TRUE
       IN  ExpiryLog(L, b, t) \o SweepLog(L, bs \ {b}, t)

\* a variant of the interval callback that deletes nothing
SweepIdle ==
  /\ now - lastSweep >= SWEEP_INTERVAL
  /\ lastSweep' = now
  /\ emitted' = <<>>
  /\ UNCHANGED <<db, locks, presence, rooms, currentBoardId, userData,
                 connected, inflight, now>>

\* the setInterval callback
Sweep ==
  /\ now - lastSweep >= SWEEP_INTERVAL
  /\ lastSweep' = now
  /\ locks' = CleanAll(locks, DOMAIN locks, now)
  /\ emitted' = SweepLog(locks, DOMAIN locks, now)
  /\ UNCHANGED <<db, presence, rooms, currentBoardId, userData, connected,
                 inflight, now>>

\* the clock advances; a due sweep fires first
Tick ==
  /\ now + TickStep <= MaxTime
  /\ now - lastSweep < SWEEP_INTERVAL
  /\ now' = now + TickStep
  /\ emitted' = <<>>
  /\ UNCHANGED <<db, locks, presence, rooms, currentBoardId, userData,
                 connected, inflight, lastSweep>>

(***************************************************************************)
(* Initial states                                                          *)
(***************************************************************************)
\* the stored boards: u1 owns both, u2 is allow-listed on A only
EmptyBoards ==
  [b \in Boards |->
     BoardDoc("u1", IF b = "A" THEN {"u2"} ELSE {}, <<>>, <<>>)]

\* the server has started and the sockets have connected: locks = {},
\* presence = {}, socket.userData = null, socket.currentBoardId = null
Init ==
  /\ db = EmptyBoards
  /\ locks = EmptyMap
  /\ presence = EmptyMap
  /\ rooms = [c \in Conns |-> {}]
  /\ currentBoardId = [c \in Conns |-> Null]
  /\ userData = [c \in Conns |-> Null]
  /\ connected = [c \in Conns |-> TRUE]
  /\ inflight = {}
  /\ now = 0
  /\ lastSweep = 0
  /\ emitted = <<>>

\* the state after socket c1 has joined board A as user u1 (join-board with
\* u1's token on the state of Init)
InitOps ==
  /\ db = EmptyBoards
  /\ locks = EmptyMap
  /\ presence = [b \in {"A"} |-> [c \in {"c1"} |->
                   [userId |-> "u1", userName |-> "u1", color |-> "#FF6B6B",
                    cursor |-> [x |-> "0", y |-> "0"]]]]
  /\ rooms = [c \in Conns |-> IF c = "c1" THEN {"A"} ELSE {}]
  /\ currentBoardId = [c \in Conns |-> IF c = "c1" THEN "A" ELSE Null]
  /\ userData = [c \in Conns |-> IF c = "c1" THEN "u1" ELSE Null]
  /\ connected = [c \in Conns |-> TRUE]
  /\ inflight = {}
  /\ now = 0
  /\ lastSweep = 0
  /\ emitted = <<>>

(***************************************************************************)
(* Requests the clients send                                               *)
(***************************************************************************)
CreateData == [id : ShapeIds, type : {"rect"}, x : Vals, y : {"0"}]
DrawData == [id : ShapeIds, points : {"pts"}]
ChangeSets ==
  UNION {[ks -> Vals] : ks \in (SUBSET UpdKeys) \ {{}}}
UpdateData == [shapeId : ShapeIds, changes : ChangeSets]
DeleteData == [shapeId : ShapeIds]
JoinData == [boardId : Boards, token : Tokens \cup {Null}]

\* the op log of the socket's board has room for one more op
OpsRoom(c) ==
  currentBoardId[c] \in DOMAIN db => Len(db[currentBoardId[c]].ops) < MaxOps

(***************************************************************************)
(* The op log, one request at a time                                       *)
(***************************************************************************)
\* shapes.reduce over the op log: applyOpToBoard from the empty set
RECURSIVE Replay(_)
Replay(log) ==
  IF log = <<>> THEN <<>>
  ELSE applyOpToBoard(Replay(SubSeq(log, 1, Len(log) - 1)), Last(log))

\* no handler is suspended at an await
Idle == inflight = {}

NextOps ==
  \/ \E c \in Conns, d \in DrawData : Idle /\ OpsRoom(c) /\ DrawEnd(c, d)
  \/ \E c \in Conns, d \in CreateData : Idle /\ OpsRoom(c) /\ CreateShape(c, d)
  \/ \E c \in Conns, d \in UpdateData : Idle /\ OpsRoom(c) /\ UpdateShape(c, d)
  \/ \E c \in Conns, d \in DeleteData : Idle /\ OpsRoom(c) /\ DeleteShape(c, d)
  \/ \E c \in Conns : Idle /\ OpsRoom(c) /\ Undo(c)
  \/ \E h \in inflight : DrawEndLoaded(h)
  \/ \E h \in inflight : DrawEndSaved(h)
  \/ \E h \in inflight : CreateShapeLoaded(h)
  \/ \E h \in inflight : CreateShapeSaved(h)
  \/ \E h \in inflight : UpdateShapeLoaded(h)
  \/ \E h \in inflight : UpdateShapeSaved(h)
  \/ \E h \in inflight : DeleteShapeLoaded(h)
  \/ \E h \in inflight : DeleteShapeSaved(h)
  \/ \E h \in inflight : UndoLoaded(h)
  \/ \E h \in inflight : UndoSaved(h)

SpecOps == InitOps /\ [][NextOps]_vars

(***************************************************************************)
(* Claims about the op log                                                 *)
(***************************************************************************)
\* the undo handler h stores its document in this step
UndoStores(h) ==
  /\ h \in inflight /\ h.kind = "undo" /\ h.pc = "save"
  /\ h \notin inflight'
  /\ h.board \in DOMAIN db
  /\ db'[h.board] = h.doc

\* the most recent op of board b is a client's update of a stored shape
LastIsUpdate(b) ==
  /\ Len(db[b].ops) > 0
  /\ Last(db[b].ops).opType = "update"
  /\ "oldValues" \in DOMAIN Last(db[b].ops).payload
  /\ FindIndex(db[b].shapes, Last(db[b].ops).payload.shapeId) # 0
  /\ \A k \in DOMAIN Last(db[b].ops).payload.oldValues :
       Last(db[b].ops).payload.oldValues[k] # Undefined

\* C1: when the most recent op is an update of a shape, an undo restores
\* every field the update changed to its old value and leaves every other
\* field of that shape unchanged.
C1_UndoRestoresUpdate ==
  [][\A h \in inflight :
       (UndoStores(h) /\ LastIsUpdate(h.board)) =>
         LET op == Last(db[h.board].ops)
             i == FindIndex(db[h.board].shapes, op.payload.shapeId)
             before == db[h.board].shapes[i]
             after == db'[h.board].shapes[i]
         IN  /\ Len(db'[h.board].shapes) = Len(db[h.board].shapes)
             /\ DOMAIN after = DOMAIN before
             /\ \A k \in DOMAIN before :
                   after[k] = IF k \in DOMAIN op.payload.oldValues
                              THEN op.payload.oldValues[k]
                              ELSE before[k]]_vars

\* C2: in every reachable state no two shapes of a board have the same id.
C2_UniqueShapeIds ==
  \A b \in DOMAIN db :
    \A i, j \in 1..Len(db[b].shapes) :
      i # j => db[b].shapes[i].id # db[b].shapes[j].id

\* C3: handling requests one at a time on a board that starts empty, the
\* stored shape set equals the replay of the op log with applyOpToBoard.
C3_StoredEqualsReplay ==
  \A b \in DOMAIN db : db[b].shapes = Replay(db[b].ops)


(***************************************************************************)
(* The whole server                                                        *)
(***************************************************************************)
Next ==
  \/ \E c \in Conns, d \in JoinData : JoinBoard(c, d)
  \/ \E h \in inflight : JoinBoardAuthenticated(h)
  \/ \E h \in inflight : JoinBoardAccessChecked(h)
  \/ \E h \in inflight, color \in Colors : JoinBoardFetched(h, color)
  \/ \E c \in Conns : LeaveBoard(c)
  \/ \E c \in Conns : Disconnect(c)
  \/ \E c \in Conns, o \in ShapeIds : LockObject(c, o)
  \/ \E c \in Conns, o \in ShapeIds : UnlockObject(c, o)
  \/ \E c \in Conns, d \in [x : Vals, y : Vals] : CursorMove(c, d)
  \/ \E c \in Conns, d \in DrawData : DrawStart(c, d)
  \/ \E c \in Conns, d \in DrawData : DrawDelta(c, d)
  \/ \E c \in Conns : Redo(c)
  \/ \E c \in Conns, d \in DrawData : OpsRoom(c) /\ DrawEnd(c, d)
  \/ \E c \in Conns, d \in CreateData : OpsRoom(c) /\ CreateShape(c, d)
  \/ \E c \in Conns, d \in UpdateData : OpsRoom(c) /\ UpdateShape(c, d)
  \/ \E c \in Conns, d \in DeleteData : OpsRoom(c) /\ DeleteShape(c, d)
  \/ \E c \in Conns : OpsRoom(c) /\ Undo(c)
  \/ \E h \in inflight : DrawEndLoaded(h)
  \/ \E h \in inflight : DrawEndSaved(h)
  \/ \E h \in inflight : CreateShapeLoaded(h)
  \/ \E h \in inflight : CreateShapeSaved(h)
  \/ \E h \in inflight : UpdateShapeLoaded(h)
  \/ \E h \in inflight : UpdateShapeSaved(h)
  \/ \E h \in inflight : DeleteShapeLoaded(h)
  \/ \E h \in inflight : DeleteShapeSaved(h)
  \/ \E h \in inflight : UndoLoaded(h)
  \/ \E h \in inflight : UndoSaved(h)
  \/ \E h \in inflight : MutationSaveFailed(h)
  \/ Sweep
  \/ Tick

Spec == Init /\ [][Next]_vars


(***************************************************************************)
(* Locks, sessions and time                                                *)
(***************************************************************************)
\* board A holds the rectangle s1, created by u1
SeededBoards ==
  LET s1 == ShapeOfCreate([id |-> "s1", type |-> "rect", x |-> "0", y |-> "0"],
                          "u1")
  IN  [EmptyBoards EXCEPT
         !["A"].shapes = <<s1>>,
         !["A"].ops = <<[opType |-> "create", payload |-> s1,
                         createdBy |-> "u1"]>>]

\* the state after c1 has joined board A as u1 and c2 as u2
InitLock ==
  /\ db = SeededBoards
  /\ locks = EmptyMap
  /\ presence = [b \in {"A"} |-> [c \in Conns |->
                   [userId |-> IF c = "c1" THEN "u1" ELSE "u2",
                    userName |-> IF c = "c1" THEN "u1" ELSE "u2",
                    color |-> "#FF6B6B",
                    cursor |-> [x |-> "0", y |-> "0"]]]]
  /\ rooms = [c \in Conns |-> {"A"}]
  /\ currentBoardId = [c \in Conns |-> "A"]
  /\ userData = [c \in Conns |-> IF c = "c1" THEN "u1" ELSE "u2"]
  /\ connected = [c \in Conns |-> TRUE]
  /\ inflight = {}
  /\ now = 0
  /\ lastSweep = 0
  /\ emitted = <<>>

MoveData == [shapeId : {"s1"}, changes : {[x |-> "50"]}]

NextLock ==
  \/ \E c \in Conns, o \in ShapeIds : LockObject(c, o)
  \/ \E c \in Conns, o \in ShapeIds : UnlockObject(c, o)
  \/ \E c \in Conns : LeaveBoard(c)
  \/ \E c \in Conns, d \in MoveData : Idle /\ OpsRoom(c) /\ UpdateShape(c, d)
  \/ \E c \in Conns : Idle /\ OpsRoom(c) /\ DeleteShape(c, [shapeId |-> "s1"])
  \/ \E h \in inflight : UpdateShapeLoaded(h)
  \/ \E h \in inflight : UpdateShapeSaved(h)
  \/ \E h \in inflight : DeleteShapeLoaded(h)
  \/ \E h \in inflight : DeleteShapeSaved(h)
  \/ Tick

SpecLock == InitLock /\ [][NextLock]_vars

NextSession ==
  \/ \E c \in Conns, b \in Boards :
       Idle /\ JoinBoard(c, [boardId |-> b, token |-> Null])
  \/ \E h \in inflight : JoinBoardAccessChecked(h)
  \/ \E h \in inflight, color \in Colors : JoinBoardFetched(h, color)
  \/ \E c \in Conns : LeaveBoard(c)
  \/ \E c \in Conns : Disconnect(c)
  \/ \E c \in Conns, o \in ShapeIds : LockObject(c, o)
  \/ \E c \in Conns, o \in ShapeIds : UnlockObject(c, o)

SpecSession == InitLock /\ [][NextSession]_vars


(***************************************************************************)
(* Claims about locks                                                      *)
(***************************************************************************)
\* board b has a lock on object o whose age at time now is at most maxAge
HeldWithin(b, o, maxAge) ==
  /\ b \in DOMAIN locks
  /\ o \in DOMAIN locks[b]
  /\ now - locks[b][o].timestamp <= maxAge

\* socket c is granted the lock on object o of board b in this step
Granted(c, b, o) ==
  /\ LockOf(locks', b, o).socketId = c
  /\ LockOf(locks', b, o).timestamp = now
  /\ Len(emitted') > 0
  /\ emitted'[Len(emitted')].name = "lock-update"
  /\ emitted'[Len(emitted')].to = InRoom(b)
  /\ emitted'[Len(emitted')].data =
       [objectId |-> o, locked |-> TRUE, userId |-> userData[c]]

\* socket c is refused the lock on object o of board b in this step, and is
\* told the user id of the socket that holds it
Denied(c, b, o) ==
  /\ LockOf(locks', b, o) = locks[b][o]
  /\ Len(emitted') > 0
  /\ emitted'[Len(emitted')] =
       [name |-> "lock-failed", to |-> {c}, about |-> b,
        data |-> [objectId |-> o,
                  lockedBy |-> userData[locks[b][o].socketId]]]
  /\ \A i \in 1..Len(emitted') : emitted'[i].name # "lock-update"

\* C4: a lock-object for an object that another joined socket holds
\* unexpired is refused with lock-failed naming the holder's user id and
\* leaves the holder in place; otherwise the requester is granted the lock:
\* of two requests for an unlocked object the first is granted, the second
\* refused.
C4_FirstLockWins ==
  [][\A c \in Conns, o \in ShapeIds :
       (LockObject(c, o) /\ currentBoardId[c] # Null) =>
         LET b == currentBoardId[c]
         IN  IF HeldWithin(b, o, LOCK_TIMEOUT) /\ locks[b][o].socketId # c
             THEN Denied(c, b, o)
             ELSE Granted(c, b, o)]_vars

\* a second socket has just been refused the lock that c1 holds as u1
C4_Witness ==
  /\ Len(emitted) = 1
  /\ emitted[1].name = "lock-failed"
  /\ emitted[1].to = {"c2"}
  /\ emitted[1].data.lockedBy = "u1"
  /\ LockOf(locks, "A", "s1").socketId = "c1"

\* the update-shape or delete-shape handler h checks the lock in this step
ChecksLock(h) ==
  /\ h \in inflight
  /\ UpdateShapeLoaded(h) \/ DeleteShapeLoaded(h)
  /\ h.board = currentBoardId[h.conn]
  /\ BoardFound(h.board)
  /\ FindIndex(db[h.board].shapes, h.data.shapeId) # 0

\* handler h ends in this step with the lock error sent to its socket only
RejectedForLock(h) ==
  /\ inflight' = inflight \ {h}
  /\ Len(emitted') > 0
  /\ emitted'[Len(emitted')] =
       [name |-> "error", to |-> {h.conn}, about |-> h.board,
        data |-> [message |-> "Object is locked by another user"]]

\* handler h goes on to save a document in which its request is applied
Applies(h) ==
  \E g \in inflight' :
    /\ g.id = h.id /\ g.pc = "save"
    /\ LET i == FindIndex(db[h.board].shapes, h.data.shapeId)
       IN  IF h.kind = "update-shape"
           THEN g.doc.shapes =
                  [db[h.board].shapes EXCEPT
                     ![i] = ObjectAssign(@, h.data.changes)]
           ELSE FindIndex(g.doc.shapes, h.data.shapeId) = 0

\* the handler h stores its document in this step
Stores(h) ==
  /\ h \in inflight /\ h.pc = "save"
  /\ h \notin inflight'
  /\ Len(emitted') = 1 /\ emitted'[1].name # "error"

AbsentFrom(minAge) ==
  /\ \A c \in Conns, o \in ShapeIds :
       (/\ LockObject(c, o)
        /\ currentBoardId[c] # Null
        /\ LockOf(locks, currentBoardId[c], o).socketId \notin {Null, c}
        /\ now - LockOf(locks, currentBoardId[c], o).timestamp >= minAge)
       => Granted(c, currentBoardId[c], o)
  /\ \A h \in inflight :
       (/\ ChecksLock(h)
        /\ LockOf(locks, h.board, h.data.shapeId).socketId \notin {Null, h.conn}
        /\ now - LockOf(locks, h.board, h.data.shapeId).timestamp >= minAge)
       => Applies(h)

\* C6 as claimed: a lock is treated as absent by every access check made
\* 30000 ms or more after it was acquired, 30000 ms exactly included.
C6_AbsentFromTimeout == [][AbsentFrom(LOCK_TIMEOUT)]_vars

\* C6 as amended: a lock is treated as absent by every access check made
\* more than 30000 ms after it was acquired.
C6_AbsentAfterTimeout == [][AbsentFrom(LOCK_TIMEOUT + 1)]_vars

\* c2 has just been granted s1 in the step that dropped c1's expired lock
C6_Witness ==
  /\ Len(emitted) = 2
  /\ emitted[1].name = "log-lock-expired"
  /\ emitted[1].data.objectId = "s1"
  /\ emitted[2].name = "lock-update"
  /\ emitted[2].data.userId = "u2"
  /\ LockOf(locks, "A", "s1").socketId = "c2"

(***************************************************************************)
(* Claims about leaving                                                    *)
(***************************************************************************)
\* the (board, object) pairs locked by socket c
LocksHeldBy(L, c) ==
  {bo \in Boards \X ShapeIds :
     LockOf(L, bo[1], bo[2]).socketId = c}

\* the events named name among evs
Named(evs, name) == {i \in 1..Len(evs) : evs[i].name = name}

\* C7: when a socket disconnects, every lock it holds on any board is
\* removed, its presence entry is removed, lock-update{locked:false} is
\* broadcast for each released lock and user-left exactly once.
C7_DisconnectReleasesAll ==
  [][\A c \in Conns :
       Disconnect(c) =>
         /\ LocksHeldBy(locks', c) = {}
         /\ \A b \in DOMAIN presence' : c \notin DOMAIN presence'[b]
         /\ \A bo \in LocksHeldBy(locks, c) :
              \E i \in Named(emitted', "lock-update") :
                /\ emitted'[i].about = bo[1]
                /\ emitted'[i].data = [objectId |-> bo[2], locked |-> FALSE]
         /\ Cardinality(Named(emitted', "user-left")) <= 1
         /\ (\E b \in DOMAIN presence : c \in DOMAIN presence[b]) =>
              Cardinality(Named(emitted', "user-left")) = 1]_vars

\* C8: after a joined socket sends leave-board, the board's lock table has
\* no lock held by it, its presence entry is gone and user-left has been
\* sent to the remaining members of the room.
C8_LeaveReleasesLocks ==
  [][\A c \in Conns :
       (LeaveBoard(c) /\ currentBoardId[c] # Null) =>
         LET b == currentBoardId[c]
         IN  /\ HeldBy(locks', b, c) = {}
             /\ b \in DOMAIN presence' => c \notin DOMAIN presence'[b]
             /\ \E i \in Named(emitted', "user-left") :
                  /\ emitted'[i].to = InRoom(b) \ {c}
                  /\ emitted'[i].data = [socketId |-> c]]_vars


(***************************************************************************)
(* Handlers that interleave                                                *)
(***************************************************************************)
RaceUpdates ==
  [c1 |-> [shapeId |-> "s1", changes |-> [x |-> "50"]],
   c2 |-> [shapeId |-> "s1", changes |-> [y |-> "50"]]]

NextRace ==
  \/ JoinBoard("c1", [boardId |-> "B", token |-> Null])
  \/ \E h \in inflight : JoinBoardAccessChecked(h)
  \/ \E h \in inflight : JoinBoardFetched(h, "#FF6B6B")
  \/ \E c \in Conns : LeaveBoard(c)
  \/ \E c \in Conns : OpsRoom(c) /\ UpdateShape(c, RaceUpdates[c])
  \/ \E h \in inflight : UpdateShapeLoaded(h)
  \/ \E h \in inflight : UpdateShapeSaved(h)

SpecRace == InitLock /\ [][NextRace]_vars

\* C9: mutating requests on one board are serialized: when a handler stores
\* its document, the stored op log is the log stored just before with that
\* handler's op appended, so no other request's op is lost or overwritten.
C9_Serialized ==
  [][\A h \in inflight :
       (Stores(h) /\ h.board \in DOMAIN db) =>
         db'[h.board].ops = Append(db[h.board].ops, Last(h.doc.ops))]_vars

\* the events that announce a mutation of a board
MutationEvents ==
  {"draw-end", "shape-created", "shape-updated", "shape-deleted",
   "undo-applied"}

\* C10: an event produced by a mutation of a board is delivered only to
\* members of that board's room.
C10_NoCrossBoardLeak ==
  \A i \in 1..Len(emitted) :
    emitted[i].name \in MutationEvents =>
      \A c \in emitted[i].to : emitted[i].about \in rooms[c]


(***************************************************************************)
(* Joining with and without a token                                        *)
(***************************************************************************)
NextJoin ==
  \/ \E b \in Boards, t \in {Null, "tok-u1", "tok-bad"} :
       JoinBoard("c1", [boardId |-> b, token |-> t])
  \/ \E b \in Boards :
       Idle /\ JoinBoard("c2", [boardId |-> b, token |-> "tok-u2"])
  \/ \E h \in inflight : JoinBoardAuthenticated(h)
  \/ \E h \in inflight : JoinBoardAccessChecked(h)
  \/ \E h \in inflight : JoinBoardFetched(h, "#FF6B6B")
  \/ \E c \in Conns : LeaveBoard(c)

SpecJoin == Init /\ [][NextJoin]_vars

\* the join-board handler h is about to act on the result of its access check
AtAccessCheck(h) ==
  h \in inflight /\ h.kind = "join-board" /\ h.pc = "access"

\* the request of h carried no token
NoToken(h) == h.data.token = Null

\* the socket of h has no verified identity: the token of the request was
\* refused, or the request had none and no earlier one was accepted
Unverified(h) == h.uid = Null

\* the socket of h is a verified user who may not use the board
NotAllowed(h) ==
  /\ h.uid # Null
  /\ BoardFound(h.board)
  /\ db[h.board].ownerId # h.uid
  /\ h.uid \notin db[h.board].allowedUsers

\* the handler h ends with an error to its socket alone; the socket's room,
\* board and presence stay as they were and nothing else is sent
JoinRejected(h) ==
  /\ \A g \in inflight' : g.id # h.id
  /\ emitted' = <<ErrorEvent(h.conn, h.board, "Access denied to this board")>>
  /\ rooms' = rooms
  /\ currentBoardId' = currentBoardId
  /\ presence' = presence

LastIs(b, t) == Len(db[b].ops) > 0 /\ Last(db[b].ops).opType = t

\* shape s is an entry of the shapes array
Holds(shapes, s) == \E i \in 1..Len(shapes) : shapes[i] = s

\* C12: if the most recent op is the create of shape S, undo stores a shape
\* set without S; if it is the delete of S, undo stores a shape set holding S
\* once, with every field as it was just before the deletion (the snapshot a
\* delete op carries is an entry of the shape set the delete was applied to).
C12_UndoCreateAndDelete ==
  [][\A h \in inflight :
       LET b == h.board
       IN  /\ (Stores(h) /\ b \in DOMAIN db /\ LastIs(b, "delete")' /\
                 Len(db'[b].ops) > Len(db[b].ops)) =>
                LET op == Last(db'[b].ops)
                IN  /\ Holds(db[b].shapes, op.payload.deletedShape)
                    /\ op.payload.deletedShape.id = op.payload.shapeId
                    /\ FindIndex(db'[b].shapes, op.payload.shapeId) = 0
           /\ (UndoStores(h) /\ LastIs(b, "create")) =>
                FindIndex(db'[b].shapes, Last(db[b].ops).payload.id) = 0
           /\ (UndoStores(h) /\ LastIs(b, "delete")) =>
                LET S == Last(db[b].ops).payload.deletedShape
                IN  /\ Holds(db'[b].shapes, S)
                    /\ \A i, j \in 1..Len(db'[b].shapes) :
                         (db'[b].shapes[i].id = S.id /\
                          db'[b].shapes[j].id = S.id) => i = j]_vars

\* an undo has just put back a shape that a delete-shape had removed
C12_Witness ==
  /\ Len(emitted) = 1 /\ emitted[1].name = "undo-applied"
  /\ \E b \in DOMAIN db :
       /\ Len(db[b].ops) = 3
       /\ db[b].ops[2].opType = "delete"
       /\ db[b].ops[3].opType = "create"
       /\ "createdBy" \in DOMAIN db[b].ops[2]
       /\ db[b].ops[3].payload = db[b].ops[2].payload.deletedShape
       /\ Holds(db[b].shapes, db[b].ops[3].payload)


(***************************************************************************)
(* The op log only grows                                                   *)
(***************************************************************************)
\* array p is a prefix of array q
IsPrefix(p, q) == Len(p) <= Len(q) /\ SubSeq(q, 1, Len(p)) = p

\* C13: across every step of every handler, interleaving ones included, the
\* stored op log before the step is a prefix of the stored op log after it.
C13_AppendOnly ==
  [][\A b \in DOMAIN db : IsPrefix(db[b].ops, db'[b].ops)]_vars


(***************************************************************************)
(* Requests from sockets that are and are not joined                       *)
(***************************************************************************)
GuardDraw == [id : {"s2"}, points : {"pts"}]
GuardCreate == [id : {"s2"}, type : {"rect"}, x : {"0"}, y : {"0"}]
GuardCursor == [x : {"50"}, y : {"0"}]

NextGuard ==
  \/ \E c \in Conns :
       Idle /\ JoinBoard(c, [boardId |-> "A", token |-> Null])
  \/ \E h \in inflight : JoinBoardAccessChecked(h)
  \/ \E h \in inflight : JoinBoardFetched(h, "#FF6B6B")
  \/ \E c \in Conns : LeaveBoard(c)
  \/ \E c \in Conns, d \in GuardDraw : DrawStart(c, d)
  \/ \E c \in Conns, d \in GuardDraw : DrawDelta(c, d)
  \/ \E c \in Conns, d \in GuardCursor : CursorMove(c, d)
  \/ \E c \in Conns : LockObject(c, "s1")
  \/ \E c \in Conns : UnlockObject(c, "s1")
  \/ \E c \in Conns, d \in GuardDraw : Idle /\ OpsRoom(c) /\ DrawEnd(c, d)
  \/ \E c \in Conns, d \in GuardCreate :
       Idle /\ OpsRoom(c) /\ CreateShape(c, d)
  \/ \E c \in Conns, d \in MoveData : Idle /\ OpsRoom(c) /\ UpdateShape(c, d)
  \/ \E c \in Conns : Idle /\ OpsRoom(c) /\ DeleteShape(c, [shapeId |-> "s1"])
  \/ \E c \in Conns : Idle /\ OpsRoom(c) /\ Undo(c)
  \/ \E h \in inflight : DrawEndLoaded(h)
  \/ \E h \in inflight : DrawEndSaved(h)
  \/ \E h \in inflight : CreateShapeLoaded(h)
  \/ \E h \in inflight : CreateShapeSaved(h)
  \/ \E h \in inflight : UpdateShapeLoaded(h)
  \/ \E h \in inflight : UpdateShapeSaved(h)
  \/ \E h \in inflight : DeleteShapeLoaded(h)
  \/ \E h \in inflight : DeleteShapeSaved(h)
  \/ \E h \in inflight : UndoLoaded(h)
  \/ \E h \in inflight : UndoSaved(h)

SpecGuard == InitLock /\ [][NextGuard]_vars

\* socket c is not joined to a board
Unjoined(c) == connected[c] /\ currentBoardId[c] = Null /\ rooms[c] = {}

\* the server handles a drawing, shape, lock or cursor request of socket c
RequestFrom(c) ==
  \/ \E d \in GuardDraw : DrawStart(c, d) \/ DrawDelta(c, d) \/ DrawEnd(c, d)
  \/ \E d \in GuardCreate : CreateShape(c, d)
  \/ \E d \in MoveData : UpdateShape(c, d)
  \/ DeleteShape(c, [shapeId |-> "s1"])
  \/ Undo(c)
  \/ LockObject(c, "s1")
  \/ UnlockObject(c, "s1")
  \/ \E d \in GuardCursor : CursorMove(c, d)

\* C14: every drawing, shape, lock and cursor request from a socket that is
\* not joined to a board changes no shapes, op log, lock or presence entry,
\* starts no handler and emits nothing, not even an error.
C14_UnjoinedRequestsIgnored ==
  [][\A c \in Conns :
       (Unjoined(c) /\ RequestFrom(c)) =>
         /\ db' = db /\ locks' = locks /\ presence' = presence
         /\ inflight' = inflight
         /\ emitted' = <<>>]_vars

\* a socket is outside every board while the board it left has a shape, a
\* lock and a member, and the step just taken emitted nothing
C14_Witness ==
  /\ Idle /\ emitted = <<>>
  /\ \E c \in Conns : Unjoined(c)
  /\ \E c \in Conns : currentBoardId[c] = "A"
  /\ db["A"].shapes # <<>>
  /\ "A" \in DOMAIN locks /\ "s1" \in DOMAIN locks["A"]


(***************************************************************************)
(* What a successful update-shape stores                                   *)
(***************************************************************************)
\* C15: a successful update-shape sets exactly the fields named in changes on
\* the target shape, leaves its other fields and every other shape as they
\* were, and appends an update op whose oldValues has exactly the keys of
\* changes, each with the field's value before the update.
C15_UpdateSetsExactlyChanges ==
  [][\A h \in inflight :
       (h.kind = "update-shape" /\ Stores(h) /\ h.board \in DOMAIN db) =>
         LET before == db[h.board].shapes
             after == db'[h.board].shapes
             changes == h.data.changes
             i == FindIndex(before, h.data.shapeId)
             op == Last(db'[h.board].ops)
         IN  /\ i # 0
             /\ Len(after) = Len(before)
             /\ \A j \in 1..Len(before) : j # i => after[j] = before[j]
             /\ DOMAIN after[i] = DOMAIN before[i] \cup DOMAIN changes
             /\ \A k \in DOMAIN after[i] :
                  after[i][k] = IF k \in DOMAIN changes THEN changes[k]
                                ELSE before[i][k]
             /\ db'[h.board].ops = Append(db[h.board].ops, op)
             /\ op.opType = "update"
             /\ op.payload.shapeId = h.data.shapeId
             /\ op.payload.changes = changes
             /\ DOMAIN op.payload.oldValues = DOMAIN changes
             /\ \A k \in DOMAIN changes :
                  op.payload.oldValues[k] =
                    IF k \in DOMAIN before[i] THEN before[i][k]
                    ELSE Undefined]_vars

\* an update-shape has just moved a rect from x 0 to x 50
C15_Witness ==
  /\ Len(emitted) = 1 /\ emitted[1].name = "shape-updated"
  /\ \E b \in DOMAIN db :
       /\ Len(db[b].ops) > 0
       /\ Last(db[b].ops).opType = "update"
       /\ "oldValues" \in DOMAIN Last(db[b].ops).payload
       /\ Last(db[b].ops).payload.changes = [x |-> "50"]
       /\ Last(db[b].ops).payload.oldValues = [x |-> "0"]
       /\ \E i \in 1..Len(db[b].shapes) :
            /\ db[b].shapes[i].id = Last(db[b].ops).payload.shapeId
            /\ db[b].shapes[i].x = "50"
            /\ db[b].shapes[i].y = "0"


(***************************************************************************)
(* Who can take a lock away                                                *)
(***************************************************************************)
NextHold ==
  \/ \E c \in Conns : LockObject(c, "s1")
  \/ \E c \in Conns : UnlockObject(c, "s1")
  \/ \E c \in Conns : LeaveBoard(c)
  \/ \E c \in Conns : Disconnect(c)
  \/ \E c \in Conns :
       Idle /\ JoinBoard(c, [boardId |-> "A", token |-> Null])
  \/ \E h \in inflight : JoinBoardAccessChecked(h)
  \/ \E h \in inflight : JoinBoardFetched(h, "#FF6B6B")
  \/ \E c \in Conns, d \in MoveData : Idle /\ OpsRoom(c) /\ UpdateShape(c, d)
  \/ \E c \in Conns : Idle /\ OpsRoom(c) /\ DeleteShape(c, [shapeId |-> "s1"])
  \/ \E h \in inflight : UpdateShapeLoaded(h)
  \/ \E h \in inflight : UpdateShapeSaved(h)
  \/ \E h \in inflight : DeleteShapeLoaded(h)
  \/ \E h \in inflight : DeleteShapeSaved(h)
  \/ Tick

SpecHold == InitLock /\ [][NextHold]_vars

\* board b has a lock on object o that has not timed out
Live(b, o) ==
  /\ b \in DOMAIN locks /\ o \in DOMAIN locks[b]
  /\ ~Expired(locks[b][o], now)

\* the lock on (b, o) is still there and still has the holder it had
Kept(b, o) ==
  /\ b \in DOMAIN locks' /\ o \in DOMAIN locks'[b]
  /\ locks'[b][o].socketId = locks[b][o].socketId
  /\ locks'[b][o].userId = locks[b][o].userId

\* C16: a lock that has not timed out is removed, or changes holder, only in
\* a step that is its holder's own unlock-object or its holder's disconnect;
\* an unlock-object from a socket that does not hold the lock changes the
\* lock table in nothing and broadcasts nothing.
C16_OnlyHolderReleases ==
  [][/\ \A b \in Boards, o \in ShapeIds :
          (Live(b, o) /\ ~Kept(b, o)) =>
            LET a == locks[b][o].socketId
            IN  \/ currentBoardId[a] = b /\ UnlockObject(a, o)
                \/ currentBoardId[a] = b /\ Disconnect(a)
     /\ \A c \in Conns, p \in ShapeIds :
          (/\ UnlockObject(c, p)
           /\ currentBoardId[c] # Null
           /\ LockOf(locks, currentBoardId[c], p).socketId # c) =>
            locks' = locks /\ emitted' = <<>>]_vars

\* another socket has just been refused while the holder's lock is in force
C16_Witness ==
  /\ Live("A", "s1")
  /\ Len(emitted) > 0
  /\ Last(emitted).name \in {"lock-failed", "error"}
  /\ \A c \in Last(emitted).to :
       c # locks["A"]["s1"].socketId /\ currentBoardId[c] = "A"


(***************************************************************************)
(* Requests for a shape that is not on the board                           *)
(***************************************************************************)
\* the update-shape or delete-shape handler h has loaded a board that holds
\* no shape with the id it was given
TargetMissing(h) ==
  /\ h \in inflight /\ h.pc = "load"
  /\ h.kind \in {"update-shape", "delete-shape"}
  /\ BoardFound(h.board)
  /\ FindIndex(db[h.board].shapes, h.data.shapeId) = 0

\* the handler h runs from the resolved load to its next await or its end
AfterLoad(h) == UpdateShapeLoaded(h) \/ DeleteShapeLoaded(h)

\* the one event of the step is an error with this message, sent to socket c
\* and to nobody else
OnlyErrorTo(c, message) ==
  /\ Len(emitted') = 1
  /\ emitted'[1].name = "error"
  /\ emitted'[1].to = {c}
  /\ emitted'[1].data = [message |-> message]

\* C17: an update-shape or delete-shape for a shape id that is not on the
\* board ends with an error event to the requester alone; no op is appended,
\* no shape changes, nothing is broadcast and the socket stays joined.
C17_NotFoundIsLocal ==
  [][\A h \in inflight :
       (TargetMissing(h) /\ AfterLoad(h)) =>
         /\ OnlyErrorTo(h.conn, "Shape not found")
         /\ db' = db
         /\ \A g \in inflight' : g.id # h.id
         /\ rooms' = rooms
         /\ currentBoardId' = currentBoardId
         /\ connected' = connected]_vars

\* a joined socket has just been told that the shape was not found, with
\* another socket in the same room
C17_Witness ==
  /\ Len(emitted) = 1
  /\ emitted[1].name = "error"
  /\ emitted[1].data = [message |-> "Shape not found"]
  /\ \E c \in Conns :
       /\ emitted[1].to = {c}
       /\ currentBoardId[c] = "A"
       /\ \E c2 \in Conns \ {c} : "A" \in rooms[c2]


(***************************************************************************)
(* What a refusal for a lock leaves behind                                 *)
(***************************************************************************)
\* socket c asks for the lock on object o, which another socket holds and
\* which has not timed out
RefusedLock(c, o) ==
  /\ LockObject(c, o)
  /\ currentBoardId[c] # Null
  /\ Live(currentBoardId[c], o)
  /\ locks[currentBoardId[c]][o].socketId # c

\* the handler h checks the lock on its shape, which another socket holds
\* and which has not timed out
RefusedMutation(h) ==
  /\ ChecksLock(h)
  /\ Live(h.board, h.data.shapeId)
  /\ locks[h.board][h.data.shapeId].socketId # h.conn

\* socket c receives an error or a lock-failed, and no other socket receives
\* anything
OnlyRequesterHears(c) ==
  /\ \A i \in 1..Len(emitted') : emitted'[i].to \subseteq {c}
  /\ \E i \in 1..Len(emitted') :
       emitted'[i].to = {c} /\ emitted'[i].name \in {"error", "lock-failed"}

\* the lock table differs from before at most by timed-out locks removed
OnlyExpiredRemoved ==
  \A b \in Boards, o \in ShapeIds :
    /\ Live(b, o) =>
         /\ b \in DOMAIN locks' /\ o \in DOMAIN locks'[b]
         /\ locks'[b][o] = locks[b][o]
    /\ (b \in DOMAIN locks' /\ o \in DOMAIN locks'[b]) =>
         /\ b \in DOMAIN locks /\ o \in DOMAIN locks[b]
         /\ locks'[b][o] = locks[b][o]

\* C18 (as stated): when an update-shape, delete-shape or lock-object is
\* refused because another socket holds the lock, only the requester receives
\* an event, and the shapes, the op log and the lock table are exactly as
\* before the request.
C18_RefusalChangesNothing ==
  [][/\ \A c \in Conns, o \in ShapeIds :
          RefusedLock(c, o) =>
            OnlyRequesterHears(c) /\ db' = db /\ locks' = locks
     /\ \A h \in inflight :
          RefusedMutation(h) =>
            OnlyRequesterHears(h.conn) /\ db' = db /\ locks' = locks]_vars

\* C18 (amended): when an update-shape, delete-shape or lock-object is
\* refused because another socket holds the lock, only the requester receives
\* an event, the shapes and the op log are exactly as before, and the lock
\* table is as before except that timed-out locks may have been removed.
C18_RefusalKeepsLiveLocks ==
  [][/\ \A c \in Conns, o \in ShapeIds :
          RefusedLock(c, o) =>
            OnlyRequesterHears(c) /\ db' = db /\ OnlyExpiredRemoved
     /\ \A h \in inflight :
          RefusedMutation(h) =>
            OnlyRequesterHears(h.conn) /\ db' = db /\ OnlyExpiredRemoved]_vars

\* c2 has just been refused for s1, which c1 holds, with c1 in the room
C18_Witness ==
  /\ Live("A", "s1") /\ locks["A"]["s1"].socketId = "c1"
  /\ Len(emitted) > 0
  /\ Last(emitted).name \in {"error", "lock-failed"}
  /\ Last(emitted).to = {"c2"}
  /\ currentBoardId["c2"] = "A" /\ "A" \in rooms["c1"]


(***************************************************************************)
(* Undo with nothing to undo                                               *)
(***************************************************************************)
\* update-shape requests for s1: a move, and a change of the shape's id
UndoUpdates == [shapeId : {"s1"}, changes : {[x |-> "50"], [id |-> "s2"]}]

NextUndo ==
  \/ \E c \in Conns, b \in Boards :
       Idle /\ JoinBoard(c, [boardId |-> b, token |-> Null])
  \/ \E h \in inflight : JoinBoardAccessChecked(h)
  \/ \E h \in inflight : JoinBoardFetched(h, "#FF6B6B")
  \/ \E c \in Conns, d \in UndoUpdates :
       Idle /\ OpsRoom(c) /\ UpdateShape(c, d)
  \/ \E c \in Conns : Idle /\ OpsRoom(c) /\ DeleteShape(c, [shapeId |-> "s1"])
  \/ \E c \in Conns : Idle /\ OpsRoom(c) /\ Undo(c)
  \/ \E h \in inflight : UpdateShapeLoaded(h)
  \/ \E h \in inflight : UpdateShapeSaved(h)
  \/ \E h \in inflight : DeleteShapeLoaded(h)
  \/ \E h \in inflight : DeleteShapeSaved(h)
  \/ \E h \in inflight : UndoLoaded(h)
  \/ \E h \in inflight : UndoSaved(h)

SpecUndo == InitLock /\ [][NextUndo]_vars

\* the undo handler h has loaded a board whose log is empty, or whose most
\* recent op is an update of a shape that is no longer on the board
NothingToUndo(h) ==
  /\ h \in inflight /\ h.kind = "undo" /\ h.pc = "load"
  /\ BoardFound(h.board)
  /\ \/ Len(db[h.board].ops) = 0
     \/ /\ LastIs(h.board, "update")
        /\ FindIndex(db[h.board].shapes,
                     Last(db[h.board].ops).payload.shapeId) = 0

\* C19: an undo on a board whose op log is empty, or whose most recent op is
\* an update of a shape that no longer exists, ends with an error event to the
\* requester alone and leaves the shapes and the op log unchanged; nothing is
\* saved and no undo-applied is broadcast.
C19_UndoErrorIsLocal ==
  [][\A h \in inflight :
       (NothingToUndo(h) /\ UndoLoaded(h)) =>
         /\ Len(emitted') = 1
         /\ emitted'[1].name = "error"
         /\ emitted'[1].to = {h.conn}
         /\ db' = db
         /\ \A g \in inflight' : g.id # h.id]_vars

\* a socket has just been told that the most recent op cannot be undone,
\* with another socket in the same room
C19_Witness ==
  /\ Len(emitted) = 1
  /\ emitted[1].name = "error"
  /\ emitted[1].data = [message |-> "Cannot undo this operation"]
  /\ \E c \in Conns :
       /\ emitted[1].to = {c}
       /\ currentBoardId[c] # Null
       /\ \E c2 \in Conns \ {c} : currentBoardId[c2] = currentBoardId[c]


(***************************************************************************)
(* A save that fails                                                       *)
(***************************************************************************)
NextFail ==
  \/ \E c \in Conns : LeaveBoard(c)
  \/ \E c \in Conns, d \in GuardDraw : Idle /\ OpsRoom(c) /\ DrawEnd(c, d)
  \/ \E c \in Conns, d \in GuardCreate :
       Idle /\ OpsRoom(c) /\ CreateShape(c, d)
  \/ \E c \in Conns, d \in MoveData : Idle /\ OpsRoom(c) /\ UpdateShape(c, d)
  \/ \E c \in Conns : Idle /\ OpsRoom(c) /\ DeleteShape(c, [shapeId |-> "s1"])
  \/ \E c \in Conns : Idle /\ OpsRoom(c) /\ Undo(c)
  \/ \E h \in inflight : DrawEndLoaded(h)
  \/ \E h \in inflight : DrawEndSaved(h)
  \/ \E h \in inflight : CreateShapeLoaded(h)
  \/ \E h \in inflight : CreateShapeSaved(h)
  \/ \E h \in inflight : UpdateShapeLoaded(h)
  \/ \E h \in inflight : UpdateShapeSaved(h)
  \/ \E h \in inflight : DeleteShapeLoaded(h)
  \/ \E h \in inflight : DeleteShapeSaved(h)
  \/ \E h \in inflight : UndoLoaded(h)
  \/ \E h \in inflight : UndoSaved(h)
  \/ \E h \in inflight : MutationSaveFailed(h)

SpecFail == InitLock /\ [][NextFail]_vars

\* the five handlers that save the board
SavingKinds ==
  {"draw-end", "create-shape", "update-shape", "delete-shape", "undo"}

\* C20: when the save of a draw-end, create-shape, update-shape, delete-shape
\* or undo fails, the requesting socket receives an error event, no other
\* socket receives one, and no socket is disconnected or taken out of its
\* room.
C20_SaveFailureIsLocal ==
  [][\A h \in inflight :
       (h.kind \in SavingKinds /\ h.pc = "save" /\ MutationSaveFailed(h)) =>
         /\ \E i \in 1..Len(emitted') :
              emitted'[i].name = "error" /\ emitted'[i].to = {h.conn}
         /\ \A i \in 1..Len(emitted') :
              emitted'[i].name = "error" => emitted'[i].to \subseteq {h.conn}
         /\ connected' = connected
         /\ rooms' = rooms
         /\ currentBoardId' = currentBoardId]_vars

\* a socket has just been told that its save failed, with another socket in
\* the same room
C20_Witness ==
  /\ Len(emitted) = 1
  /\ emitted[1].name = "error"
  /\ emitted[1].data.message \in
       {"Failed to save drawing", "Failed to create shape",
        "Failed to update shape", "Failed to delete shape", "Failed to undo"}
  /\ \E c \in Conns :
       /\ emitted[1].to = {c}
       /\ \E c2 \in Conns \ {c} :
            connected[c2] /\ emitted[1].about \in rooms[c2]

(***************************************************************************)
(* Who receives a broadcast                                                *)
(***************************************************************************)
\* the event each saving handler broadcasts after its save
BroadcastName(kind) ==
  CASE kind = "draw-end" -> "draw-end"
    [] kind = "create-shape" -> "shape-created"
    [] kind = "update-shape" -> "shape-updated"
    [] kind = "delete-shape" -> "shape-deleted"
    [] kind = "undo" -> "undo-applied"

\* the last event of the step is named name and is delivered to exactly the
\* sockets in to
LastGoesTo(name, to) ==
  /\ Len(emitted') > 0
  /\ Last(emitted').name = name
  /\ Last(emitted').to = to

\* lock-object of socket c for object o is granted in this step
LockSucceeds(c, o) ==
  /\ LockObject(c, o)
  /\ currentBoardId[c] # Null
  /\ ~LockedByOther(
        LockOf(cleanExpiredLocks(locks, currentBoardId[c], now),
               currentBoardId[c], o), c)

\* unlock-object of socket c releases its lock on object o in this step
UnlockSucceeds(c, o) ==
  /\ UnlockObject(c, o)
  /\ currentBoardId[c] # Null
  /\ LockOf(locks, currentBoardId[c], o).socketId = c

\* a successful saving request is broadcast to every member of the room of
\* the board it changed, its sender among them
SavedGoesToRoom ==
  \A h \in inflight :
    (h.kind \in SavingKinds /\ Stores(h)) =>
      /\ LastGoesTo(BroadcastName(h.kind), InRoom(h.board))
      /\ h.conn \in Last(emitted').to

\* a successful lock-object or unlock-object is broadcast to every member of
\* the room, its sender among them
LockGoesToRoom ==
  \A c \in Conns, o \in ShapeIds :
    /\ LockSucceeds(c, o) =>
         /\ LastGoesTo("lock-update", InRoom(currentBoardId[c]))
         /\ c \in Last(emitted').to
    /\ UnlockSucceeds(c, o) =>
         /\ LastGoesTo("lock-update", InRoom(currentBoardId[c]))
         /\ c \in Last(emitted').to

\* draw-start, draw-delta and cursor-move of a joined socket go to every
\* member of the room but the sender
RelayGoesToOthers ==
  \A c \in Conns :
    LET b == currentBoardId[c]
    IN  /\ \A d \in DrawData :
             /\ (DrawStart(c, d) /\ b # Null) =>
                  LastGoesTo("draw-start", InRoom(b) \ {c})
             /\ (DrawDelta(c, d) /\ b # Null) =>
                  LastGoesTo("draw-delta", InRoom(b) \ {c})
        /\ \A d \in [x : Vals, y : Vals] :
             (/\ CursorMove(c, d)
              /\ b # Null /\ b \in DOMAIN presence
              /\ c \in DOMAIN presence[b]) =>
               LastGoesTo("cursor-update", InRoom(b) \ {c})

\* C21: a successful draw-end, create-shape, update-shape, delete-shape,
\* undo, lock-object or unlock-object is broadcast to every member of the
\* board's room including the sender; draw-start, draw-delta and cursor-move
\* go to every member of the room except the sender.
C21_EchoToSender ==
  [][SavedGoesToRoom /\ LockGoesToRoom /\ RelayGoesToOthers]_vars

(***************************************************************************)
(* One board at a time                                                     *)
(***************************************************************************)
\* the join-board handlers of socket c that are suspended at an await
JoinsInFlight(c) == {h \in inflight : h.conn = c /\ h.kind = "join-board"}

\* C22: in every reachable state, states with several join-board handlers of
\* one socket in flight included, a socket is a member of at most one board's
\* room, and that room is the board recorded as its current board.
C22_OneBoardAtATime ==
  \A c \in Conns :
    /\ Cardinality(rooms[c]) <= 1
    /\ \A b \in rooms[c] : b = currentBoardId[c]
    /\ (connected[c] /\ currentBoardId[c] # Null) =>
         rooms[c] = {currentBoardId[c]}

\* a socket has switched to a second board while its join of the first board
\* is still waiting for the board document
C22_Witness ==
  \E c \in Conns :
    /\ Cardinality(JoinsInFlight(c)) = 1
    /\ \E h \in JoinsInFlight(c) :
         /\ h.pc = "fetch"
         /\ currentBoardId[c] \in Boards \ {h.board}
         /\ rooms[c] = {currentBoardId[c]}

(***************************************************************************)
(* Switching boards                                                        *)
(***************************************************************************)
\* the boards on which socket c has a presence entry
PresentOn(P, c) == {b \in DOMAIN P : c \in DOMAIN P[b]}

\* socket c is joined to board a: it is in the room and has a presence entry
JoinedTo(c, a) ==
  /\ currentBoardId[c] = a
  /\ a \in rooms[c]
  /\ a \in PresentOn(presence, c)

\* the join-board handler h completes successfully in this step: the board
\* was found, and board-state and presence-state go to its socket
JoinSucceeds(h) ==
  /\ h \in inflight /\ h.kind = "join-board" /\ h.pc = "fetch"
  /\ BoardFound(h.board)
  /\ \E color \in Colors : JoinBoardFetched(h, color)

\* C23: when a socket joined to board A successfully joins board B, after the
\* join its presence entry in A no longer exists, it is no longer a member of
\* A's room, and it has exactly one presence entry, in B.
C23_SwitchLeavesPrevious ==
  [][\A h \in inflight, a \in Boards :
       (JoinedTo(h.conn, a) /\ a # h.board /\ JoinSucceeds(h)) =>
         /\ a \notin PresentOn(presence', h.conn)
         /\ a \notin rooms'[h.conn]
         /\ PresentOn(presence', h.conn) = {h.board}]_vars

(***************************************************************************)
(* Boards share no state                                                   *)
(***************************************************************************)
\* presence[b] || {}
PresenceOf(P, b) == IF b \in DOMAIN P THEN P[b] ELSE EmptyMap

\* this step runs a handler for a request of socket c on the board it is
\* joined to: a drawing, shape, undo, redo, lock, cursor or leave request, or
\* the continuation of one after an await
HandledFor(c) ==
  \/ \E h \in inflight :
       h.conn = c /\ h.kind \in SavingKinds /\ h \notin inflight'
  \/ \E d \in DrawData : DrawStart(c, d) \/ DrawDelta(c, d) \/ DrawEnd(c, d)
  \/ \E d \in CreateData : CreateShape(c, d)
  \/ \E d \in UpdateData : UpdateShape(c, d)
  \/ \E d \in DeleteData : DeleteShape(c, d)
  \/ Undo(c) \/ Redo(c)
  \/ \E o \in ShapeIds : LockObject(c, o) \/ UnlockObject(c, o)
  \/ \E d \in [x : Vals, y : Vals] : CursorMove(c, d)
  \/ LeaveBoard(c)

\* the shapes, op log, locks and presence entries of board b are the same
\* after the step as before
BoardUntouched(b) ==
  /\ b \in DOMAIN db => (b \in DOMAIN db' /\ db'[b] = db[b])
  /\ \A o \in ShapeIds : LockOf(locks', b, o) = LockOf(locks, b, o)
  /\ PresenceOf(presence', b) = PresenceOf(presence, b)

\* C24: any request handled for a socket joined to board A leaves the
\* shapes, op log, lock table entries and presence entries of every other
\* board B unchanged.
C24_BoardsShareNoState ==
  [][\A c \in Conns, b \in Boards :
       (currentBoardId[c] \notin {Null, b} /\ HandledFor(c)) =>
         BoardUntouched(b)]_vars

(***************************************************************************)
(* Asking again for a lock one holds                                       *)
(***************************************************************************)
\* socket c asks for the lock on object o that it holds itself and that has
\* not timed out
ReLock(c, o) ==
  /\ LockObject(c, o)
  /\ currentBoardId[c] # Null
  /\ Live(currentBoardId[c], o)
  /\ locks[currentBoardId[c]][o].socketId = c

\* C25: a lock-object by the socket that already holds the live lock on the
\* object is treated as success and refreshes nothing: holder and acquisition
\* timestamp are the same after the request as before.
C25_ReLockRefreshesNothing ==
  [][\A c \in Conns, o \in ShapeIds :
       ReLock(c, o) =>
         LET b == currentBoardId[c]
         IN  /\ LastGoesTo("lock-update", InRoom(b))
             /\ Last(emitted').data.locked
             /\ LockOf(locks', b, o).socketId = locks[b][o].socketId
             /\ LockOf(locks', b, o).timestamp = locks[b][o].timestamp]_vars

\* C25 (amended): a lock-object by the socket that already holds the live
\* lock on the object is treated as success and keeps the holder, but the
\* lock's timestamp becomes the time of the request, so that the lock expires
\* more than 30 s after the holder's last request for it.
C25_ReLockRefreshesTimestamp ==
  [][\A c \in Conns, o \in ShapeIds :
       ReLock(c, o) =>
         LET b == currentBoardId[c]
         IN  /\ LastGoesTo("lock-update", InRoom(b))
             /\ Last(emitted').data.locked
             /\ LockOf(locks', b, o).socketId = locks[b][o].socketId
             /\ LockOf(locks', b, o).timestamp = now]_vars

\* c1 has just been granted s1 more than 30 s after the start, and holds it
\* with the time of that request as timestamp
C25_Witness ==
  /\ now > LOCK_TIMEOUT
  /\ Live("A", "s1")
  /\ locks["A"]["s1"].socketId = "c1"
  /\ locks["A"]["s1"].timestamp = now
  /\ emitted = <<IoTo("A", "lock-update", "A",
                      [objectId |-> "s1", locked |-> TRUE, userId |-> "u1"])>>

(***************************************************************************)
(* The locks a joining socket is told of                                   *)
(***************************************************************************)
\* C26: the locks map delivered in board-state to a joining socket contains
\* no lock whose age exceeds the 30 s timeout, whether or not the periodic
\* sweep has run since the lock became stale.
C26_BoardStateLocksLive ==
  \A i \in 1..Len(emitted) :
    emitted[i].name = "board-state" =>
      \A o \in DOMAIN emitted[i].data.locks :
        ~Expired(emitted[i].data.locks[o], now)

(***************************************************************************)
(* A stale lock does not block forever                                     *)
(***************************************************************************)
\* the clock of this part runs long enough for a lock to time out, to be
\* taken over, and for two sweeps after that
SweepTicks == 3 * MaxTicks + 1
SweepHorizon == SweepTicks * TickStep
Times == {k * TickStep : k \in 0..SweepTicks}

\* the latest time a lock can be taken and still be seen to time out and be
\* swept before the clock of the model stops
LastAcquire == SweepHorizon - SWEEP_INTERVAL - LOCK_TIMEOUT

\* the clock advances up to the horizon; a due sweep fires first
LongTick ==
  /\ now + TickStep <= SweepHorizon
  /\ now - lastSweep < SWEEP_INTERVAL
  /\ now' = now + TickStep
  /\ emitted' = <<>>
  /\ UNCHANGED <<db, locks, presence, rooms, currentBoardId, userData,
                 connected, inflight, lastSweep>>

\* a socket asks for a lock it does not hold; a holder never asks again,
\* never unlocks and never disconnects
NextSweep ==
  \/ \E c \in Conns, o \in ShapeIds :
       /\ now <= LastAcquire
       /\ LockOf(locks, currentBoardId[c], o).socketId # c
       /\ LockObject(c, o)
  \/ Sweep
  \/ LongTick

\* time passes and the interval fires
SpecSweep ==
  InitLock /\ [][NextSweep]_vars /\ WF_vars(LongTick) /\ WF_vars(Sweep)

\* the lock on object o of board A is the one socket c took at time t
LockIs(o, c, t) ==
  /\ LockOf(locks, "A", o).socketId = c
  /\ LockOf(locks, "A", o).timestamp = t

\* a lock-object for an object whose lock another socket holds and which has
\* timed out is granted
GrantedWhenStale ==
  \A c \in Conns, o \in ShapeIds :
    (/\ LockObject(c, o)
     /\ currentBoardId[c] # Null
     /\ LockOf(locks, currentBoardId[c], o).socketId \notin {Null, c}
     /\ Expired(LockOf(locks, currentBoardId[c], o), now))
    => Granted(c, currentBoardId[c], o)

\* C27: if a socket takes a lock and afterwards never asks for it again,
\* never unlocks and never disconnects, then a lock-object for the object
\* sent by another socket after the timeout is granted, and, as time advances,
\* the lock eventually leaves the table even if nobody accesses it.
C27_StaleLockGoes ==
  /\ [][GrantedWhenStale]_vars
  /\ \A c \in Conns, o \in ShapeIds, t \in Times :
       LockIs(o, c, t) ~> ~LockIs(o, c, t)

\* the interval has just fired and removed a timed-out lock
C27_Witness ==
  /\ lastSweep = now /\ now >= SWEEP_INTERVAL
  /\ Len(emitted) > 0
  /\ emitted[1].name = "log-lock-expired"
  /\ LockOf(locks, "A", emitted[1].data.objectId) = NoLock

(***************************************************************************)
(* What a joining socket is sent, and in which order                       *)
(***************************************************************************)
\* the sockets an event emitted to socket c alone reaches
Only(c) == IF connected[c] THEN {c} ELSE {}

\* C28: on a successful join-board the joining socket is sent board-state
\* (the current shapes, op log and locks of the board) first and
\* presence-state (which includes its own entry, with cursor at (0,0)) second;
\* only after both is user-joined announced to the other members of the room,
\* and never to the joiner itself.
C28_SnapshotsThenAnnounce ==
  [][\A h \in inflight :
       JoinSucceeds(h) =>
         LET c == h.conn
             b == h.board
         IN  /\ Len(emitted') = 3
             /\ emitted'[1].name = "board-state"
             /\ emitted'[1].to = Only(c)
             /\ emitted'[1].data =
                  [shapes |-> db[b].shapes, ops |-> db[b].ops,
                   locks |-> [o \in LockedObjects(locks, b) |-> locks[b][o]]]
             /\ emitted'[2].name = "presence-state"
             /\ emitted'[2].to = Only(c)
             /\ emitted'[2].data.list = presence'[b]
             /\ c \in DOMAIN emitted'[2].data.list
             /\ emitted'[2].data.list[c].cursor = [x |-> "0", y |-> "0"]
             /\ emitted'[3].name = "user-joined"
             /\ emitted'[3].to = InRoom(b) \ {c}
             /\ emitted'[3].data = presence'[b][c]]_vars

\* a socket has just joined a board that holds a shape and a lock, with
\* another socket in the room to hear of it
C28_Witness ==
  /\ Len(emitted) = 3
  /\ emitted[1].name = "board-state"
  /\ emitted[1].data.shapes # <<>>
  /\ DOMAIN emitted[1].data.locks # {}
  /\ emitted[1].to # {}
  /\ emitted[3].name = "user-joined"
  /\ emitted[3].to # {}
  /\ emitted[3].to \cap emitted[1].to = {}

(***************************************************************************)
(* One op per successful request                                           *)
(***************************************************************************)
NextLog ==
  \/ \E c \in Conns : LockObject(c, "s1")
  \/ \E c \in Conns : UnlockObject(c, "s1")
  \/ \E c \in Conns, d \in GuardDraw : Idle /\ OpsRoom(c) /\ DrawEnd(c, d)
  \/ \E c \in Conns, d \in GuardCreate :
       Idle /\ OpsRoom(c) /\ CreateShape(c, d)
  \/ \E c \in Conns, d \in MoveData : Idle /\ OpsRoom(c) /\ UpdateShape(c, d)
  \/ \E c \in Conns, d \in DeleteData :
       Idle /\ OpsRoom(c) /\ DeleteShape(c, d)
  \/ \E c \in Conns : Idle /\ OpsRoom(c) /\ Undo(c)
  \/ \E h \in inflight : DrawEndLoaded(h)
  \/ \E h \in inflight : DrawEndSaved(h)
  \/ \E h \in inflight : CreateShapeLoaded(h)
  \/ \E h \in inflight : CreateShapeSaved(h)
  \/ \E h \in inflight : UpdateShapeLoaded(h)
  \/ \E h \in inflight : UpdateShapeSaved(h)
  \/ \E h \in inflight : DeleteShapeLoaded(h)
  \/ \E h \in inflight : DeleteShapeSaved(h)
  \/ \E h \in inflight : UndoLoaded(h)
  \/ \E h \in inflight : UndoSaved(h)
  \/ \E h \in inflight : MutationSaveFailed(h)

SpecLog == InitLock /\ [][NextLog]_vars

\* the op that handler h pushed onto its copy of the log
PushedOp(h) == Last(h.doc.ops)

\* the op records the change of the shapes that is stored with it
Records(h, op, before, after) ==
  CASE h.kind \in {"draw-end", "create-shape"} ->
         /\ op.opType = "create"
         /\ op.payload.id = h.data.id
         /\ after = Append(before, op.payload)
    [] h.kind = "update-shape" ->
         /\ op.opType = "update"
         /\ op.payload.shapeId = h.data.shapeId
         /\ op.payload.changes = h.data.changes
         /\ after = applyOpToBoard(before, op)
    [] h.kind = "delete-shape" ->
         /\ op.opType = "delete"
         /\ op.payload.shapeId = h.data.shapeId
         /\ FindIndex(before, h.data.shapeId) # 0
         /\ op.payload.deletedShape =
              before[FindIndex(before, h.data.shapeId)]
         /\ after = FilterOut(before, h.data.shapeId)
    [] h.kind = "undo" ->
         /\ op.opType \in {"create", "delete", "update"}
         /\ after = applyOpToBoard(before, op)

\* the saving handler h ends in this step without having stored anything:
\* it returns early, rejects the request, or its save fails
EndsUnsaved(h) ==
  /\ h \in inflight /\ h.kind \in SavingKinds
  /\ \A g \in inflight' : g.id # h.id
  /\ ~Stores(h)

\* C29: every draw-end, create-shape, update-shape, delete-shape or undo
\* request that completes successfully appends exactly one op to the board's
\* log, stored in the same step as the change of the shapes it records
\* (create ops carry the full shape, delete ops the full removed shape);
\* every request that is rejected or fails appends none, and nothing else
\* changes a stored board.
C29_OneOpPerSuccess ==
  [][/\ \A h \in inflight :
          /\ (h.kind \in SavingKinds /\ Stores(h)) =>
               /\ db'[h.board].ops = Append(db[h.board].ops, PushedOp(h))
               /\ Records(h, PushedOp(h), db[h.board].shapes,
                          db'[h.board].shapes)
               /\ \A b \in (DOMAIN db) \ {h.board} : db'[b] = db[b]
          /\ EndsUnsaved(h) => db' = db
     /\ db' # db => \E g \in inflight : g.kind \in SavingKinds /\ Stores(g)]_vars

(***************************************************************************)
(* Undo of an undo                                                         *)
(***************************************************************************)
\* the document the undo handler saves when it has loaded the document
\* board, whose log is not empty and whose last op can be undone
UndoDoc(board, uid) ==
  LET undoOp == createUndoOp(Last(board.ops), board)
  IN  [board EXCEPT
         !.shapes = applyOpToBoard(@, undoOp),
         !.ops = Append(@, [opType |-> undoOp.opType,
                            payload |-> undoOp.payload,
                            createdBy |-> uid])]

\* an undo that is handled with no other request in between stores UndoDoc
\* of the stored document
UndoStoresUndoDoc ==
  \A h \in inflight :
    (UndoStores(h) /\ Cardinality(inflight) = 1) =>
      db'[h.board] = UndoDoc(db[h.board], UserIdOr(h.conn, Null))

\* two consecutive undos of board b bring back its shapes and add two ops
TwiceRestores(b) ==
  LET twice == UndoDoc(UndoDoc(db[b], Null), Null)
  IN  /\ twice.shapes = db[b].shapes
      /\ Len(twice.ops) = Len(db[b].ops) + 2

\* C30: the op appended by undo is an ordinary op that a further undo
\* compensates in turn: when the most recent op is a create or a delete, two
\* consecutive undo requests leave the shape set equal to what it was before
\* the first undo, and the log has grown by exactly two ops.
C30_UndoTwiceRestores ==
  /\ [][UndoStoresUndoDoc]_vars
  /\ [](\A b \in DOMAIN db :
          (LastIs(b, "create") \/ LastIs(b, "delete")) => TwiceRestores(b))

(***************************************************************************)
(* Undo next to other mutations                                            *)
(***************************************************************************)
\* undo, update-shape and delete-shape of both sockets, their handlers
\* interleaving at every await
NextUndoRace ==
  \/ \E c \in Conns : OpsRoom(c) /\ UpdateShape(c, RaceUpdates[c])
  \/ \E c \in Conns : OpsRoom(c) /\ DeleteShape(c, [shapeId |-> "s1"])
  \/ \E c \in Conns : OpsRoom(c) /\ Undo(c)
  \/ \E h \in inflight : UpdateShapeLoaded(h)
  \/ \E h \in inflight : UpdateShapeSaved(h)
  \/ \E h \in inflight : DeleteShapeLoaded(h)
  \/ \E h \in inflight : DeleteShapeSaved(h)
  \/ \E h \in inflight : UndoLoaded(h)
  \/ \E h \in inflight : UndoSaved(h)

SpecUndoRace == InitLock /\ [][NextUndoRace]_vars

\* C31: the shapes field of every undo-applied event is the full shape set
\* of the board as stored after that undo, so a client that replaces its
\* shapes with it holds exactly the stored shape set at that point, also
\* when another mutation of the board was in flight during the undo.
C31_UndoAppliedCarriesStoredShapes ==
  \A i \in 1..Len(emitted) :
    emitted[i].name = "undo-applied" =>
      /\ emitted[i].about \in DOMAIN db
      /\ emitted[i].data.shapes = db[emitted[i].about].shapes
      /\ emitted[i].data.undoOp = Last(db[emitted[i].about].ops)

\* an undo has just been stored and announced while another handler that
\* loaded the board before the undo was stored is still waiting to save, and
\* the undo changed the stored shapes
C31_Witness ==
  /\ Len(emitted) = 1
  /\ emitted[1].name = "undo-applied"
  /\ emitted[1].to = Conns
  /\ emitted[1].data.shapes = db["A"].shapes
  /\ emitted[1].data.shapes # SeededBoards["A"].shapes
  /\ \E g \in inflight : g.board = "A" /\ g.pc = "save"

(***************************************************************************)
(* Cursors                                                                 *)
(***************************************************************************)
CursorData == [x : Vals, y : Vals]

\* cursor-move next to joins (also concurrent ones), leaves and disconnects
NextCursor ==
  \/ \E c \in Conns, d \in CursorData : CursorMove(c, d)
  \/ \E c \in Conns, b \in Boards :
       JoinBoard(c, [boardId |-> b, token |-> Null])
  \/ \E h \in inflight : JoinBoardAccessChecked(h)
  \/ \E h \in inflight : JoinBoardFetched(h, "#FF6B6B")
  \/ \E c \in Conns : LeaveBoard(c)
  \/ \E c \in Conns : Disconnect(c)

SpecCursor == InitLock /\ [][NextCursor]_vars

\* a cursor-move of a socket joined to a board stores the position in its
\* presence entry and sends cursor-update to the others in that room only
MoveStoredAndRelayed ==
  \A c \in Conns, b \in Boards, d \in CursorData :
    (JoinedTo(c, b) /\ CursorMove(c, d)) =>
      /\ presence' = [presence EXCEPT ![b][c].cursor = d]
      /\ Len(emitted') = 1
      /\ emitted'[1].name = "cursor-update"
      /\ emitted'[1].data.cursor = d
      /\ emitted'[1].to = InRoom(b) \ {c}

\* the cursor of a presence entry changes only when its socket sends
\* cursor-move or joins that board anew
CursorKeptUntilNextMove ==
  \A c \in Conns, b \in DOMAIN presence :
    (/\ c \in DOMAIN presence[b]
     /\ b \in DOMAIN presence' /\ c \in DOMAIN presence'[b]
     /\ presence'[b][c].cursor # presence[b][c].cursor) =>
      \/ \E d \in CursorData : currentBoardId[c] = b /\ CursorMove(c, d)
      \/ \E h \in inflight : h.conn = c /\ h.board = b /\ JoinSucceeds(h)

\* presence-state lists the presence entries of the board as they are
PresenceStateIsTable ==
  \A i \in 1..Len(emitted') :
    emitted'[i].name = "presence-state" =>
      /\ emitted'[i].about \in DOMAIN presence'
      /\ emitted'[i].data.list = presence'[emitted'[i].about]

\* C32: after a joined connection sends cursor-move{x,y}, its presence entry
\* holds cursor (x,y), the last value sent wins, so the presence-state
\* delivered to a connection that joins afterwards reports that position, and
\* cursor-update is delivered only to the other members of the sender's
\* current board.
C32_CursorInPresence ==
  [][MoveStoredAndRelayed /\ CursorKeptUntilNextMove
     /\ PresenceStateIsTable]_vars

\* c2 has just joined board A and its presence-state reports the position
\* c1 sent last
C32_Witness ==
  /\ Len(emitted) = 3
  /\ emitted[2].name = "presence-state"
  /\ emitted[2].to = {"c2"}
  /\ emitted[2].about = "A"
  /\ JoinedTo("c1", "A")
  /\ emitted[2].data.list["c1"].cursor = [x |-> "50", y |-> "50"]
  /\ presence["A"]["c1"].cursor = [x |-> "50", y |-> "50"]

(***************************************************************************)
(* What a lock protects                                                    *)
(***************************************************************************)
\* shapes.filter(s => s.id === o)
ShapesWithId(shapes, o) == SelectSeq(shapes, LAMBDA s : s.id = o)

\* C33: a lock prevents every other actor from mutating the locked object:
\* while connection A holds a live lock on shape o, no request of any kind
\* from another connection B, undo included, changes or removes shape o.
C33_LockShieldsFromOthers ==
  [][\A h \in inflight, a \in Conns, o \in ShapeIds :
       (/\ Stores(h)
        /\ h.board \in DOMAIN db
        /\ h.conn # a
        /\ Live(h.board, o)
        /\ locks[h.board][o].socketId = a) =>
         ShapesWithId(db'[h.board].shapes, o) =
           ShapesWithId(db[h.board].shapes, o)]_vars

(***************************************************************************)
(* Identity of a joined socket                                             *)
(***************************************************************************)
\* C34: every connection that is joined to board b and able to mutate it has
\* a current identity (socket.userData) that is the owner or an allow-listed
\* user of b: a join-board that is denied leaves the connection's identity,
\* membership, presence and locks as they were before that request.
C34_JoinedHaveAccess ==
  \A c \in Conns, b \in Boards :
    (/\ connected[c]
     /\ currentBoardId[c] = b
     /\ b \in rooms[c]
     /\ JoinsInFlight(c) = {}) =>
      checkBoardAccess(b, userData[c])

(***************************************************************************)
(* Announcing that a lock is gone                                          *)
(***************************************************************************)
\* the objects of board b that stop being locked in this step
Unlocked(b) == LockedObjects(locks, b) \ LockedObjects(locks', b)

\* the members of board b's room after this step
InRoomAfter(b) == {c \in Conns : connected'[c] /\ b \in rooms'[c]}

\* C35: every removal of a lock from the lock table is announced: whenever a
\* lock on object o of board b stops existing (by unlock-object, by the
\* holder's disconnect, or by expiry in cleanExpiredLocks or the periodic
\* sweep), lock-update{objectId: o, locked: false} is broadcast to b's room.
C35_RemovalAnnounced ==
  [][\A b \in Boards : \A o \in Unlocked(b) :
       \E i \in 1..Len(emitted') :
         /\ emitted'[i].name = "lock-update"
         /\ emitted'[i].about = b
         /\ emitted'[i].data.objectId = o
         /\ emitted'[i].data.locked = FALSE
         /\ emitted'[i].to = InRoomAfter(b)]_vars

(***************************************************************************)
(* Presence of one socket                                                  *)
(***************************************************************************)
\* C36: a connection has a presence entry in at most one board at any time,
\* also when two join-board requests of the same connection for different
\* boards are in flight concurrently.
C36_PresentOnOneBoard ==
  \A c \in Conns : Cardinality(PresentOn(presence, c)) <= 1

(***************************************************************************)
(* Presence after a disconnect                                             *)
(***************************************************************************)
\* C37: after a connection's disconnect handler has run, no presence entry
\* for that connection exists or is ever created on any board, also when the
\* disconnect arrives while one of its join-board handlers is suspended at
\* the board fetch.
C37_GoneAfterDisconnect ==
  \A c \in Conns : ~connected[c] => PresentOn(presence, c) = {}

(***************************************************************************)
(* Joined and present                                                      *)
(***************************************************************************)
\* DELETE /api/boards/:id by the board's owner: Board.findByIdAndDelete
DeleteBoard(b) ==
  /\ b \in DOMAIN db
  /\ db' = [x \in (DOMAIN db) \ {b} |-> db[x]]
  /\ emitted' = <<>>
  /\ UNCHANGED <<locks, presence, rooms, currentBoardId, userData, connected,
                 inflight, now, lastSweep>>

\* joins, one at a time, of boards that their owner may delete meanwhile
NextGone ==
  \/ \E c \in Conns, b \in Boards :
       Idle /\ JoinBoard(c, [boardId |-> b, token |-> Null])
  \/ \E h \in inflight : JoinBoardAccessChecked(h)
  \/ \E h \in inflight, color \in Colors : JoinBoardFetched(h, color)
  \/ \E c \in Conns, d \in GuardCursor : CursorMove(c, d)
  \/ \E b \in Boards : DeleteBoard(b)

SpecGone == InitLock /\ [][NextGone]_vars

\* C38: whenever no handler of a connection is in flight, the connection is
\* joined to board b (currentBoardId = b and member of room b) if and only
\* if it has a presence entry in presence[b]; in particular a join-board
\* that ends with the 'Board not found' error leaves the connection neither
\* joined nor present.
C38_JoinedIffPresent ==
  \A c \in Conns :
    (connected[c] /\ \A h \in inflight : h.conn # c) =>
      \A b \in Boards :
        (currentBoardId[c] = b /\ b \in rooms[c])
          <=> (b \in PresentOn(presence, c))

(***************************************************************************)
(* Events and what is stored                                               *)
(***************************************************************************)
\* a save that is rejected emits no mutation event and stores nothing
NoEventOnFailure ==
  \A h \in inflight :
    (h.kind \in SavingKinds /\ h.pc = "save" /\ MutationSaveFailed(h)) =>
      /\ \A i \in 1..Len(emitted') : emitted'[i].name \notin MutationEvents
      /\ db' = db

\* a mutation event is emitted by a handler whose save has just stored the
\* document with the op the event announces
EventMeansStored ==
  \A i \in 1..Len(emitted') :
    emitted'[i].name \in MutationEvents =>
      \E h \in inflight :
        /\ h.pc = "save" /\ h \notin inflight'
        /\ emitted'[i].name = BroadcastName(h.kind)
        /\ emitted'[i].about = h.board
        /\ h.board \in DOMAIN db'
        /\ db'[h.board] = h.doc
        /\ Len(db'[h.board].ops) > 0
        /\ Last(db'[h.board].ops) = PushedOp(h)

\* C39: no mutation event is broadcast for a mutation that was not
\* persisted: when board.save fails in draw-end, create-shape, update-shape,
\* delete-shape or undo, none of draw-end, shape-created, shape-updated,
\* shape-deleted, undo-applied is emitted, so every mutation event a client
\* receives corresponds to a change contained in the stored board.
C39_NoEventWithoutSave ==
  [][NoEventOnFailure /\ EventMeansStored]_vars

\* the save of c2's delete-shape of s1 has just been rejected: c2 alone is
\* told, and the board is stored as it was
C39_Witness ==
  /\ Len(emitted) = 1
  /\ emitted[1].name = "error"
  /\ emitted[1].to = {"c2"}
  /\ emitted[1].data.message = "Failed to delete shape"
  /\ db = SeededBoards
  /\ inflight = {}
====
